---- MODULE Spec2Model ----
(***************************************************************************)
(* A model of the pill interpreter (src/src/interpreter.rs and             *)
(* src/src/opcodes.rs): begin_parsing with its three phases, the statement *)
(* validator parse_code and the recursive opcode evaluator.                *)
(*                                                                         *)
(* Source text is modelled at the level of its items: a file is the list   *)
(* of register names it declares and the list of instruction definitions   *)
(* it holds, each statement already split in its mnemonic and tokens.      *)
(* Names and string tokens are sequences of one-character strings, so that *)
(* quote stripping, digit tests and case folding are computed.  An f64 is  *)
(* modelled by an integer: every number of the inputs is integral.         *)
(***************************************************************************)
EXTENDS Integers, Sequences, FiniteSets, TLC

VARIABLES
    files,          \* Interpreter.files: the main source files
    preamble,       \* Interpreter.preamble: the preamble files
    phase,          \* position inside begin_parsing
    registers,      \* Interpreter.registers: the global Register Table
    instructions,   \* Interpreter.instructions
    scope,          \* Instruction.scope of each instruction, during the run
    stack,          \* the call stack of Instruction::execute / c_execute
    ret,            \* the Result travelling from a callee to its caller
    returned,       \* the value begin_parsing returned
    out,            \* what the program printed, in order
    owner,          \* history: for each entry of each scope, who pushed it
    seen,           \* history: the loop variable at each body invocation
    nexec,          \* history: number of OpCode::execute calls started
    failed,         \* history: the first error an opcode returned, and when
    raised          \* history: the errors the scan phases raised, in order

\* the scans of one source file, character by character
VARIABLES
    content,        \* EnhancedFile.content: the characters of the file
    it,             \* the Peekable<Chars> iterator: index of the next character
    head,           \* the ReadHead of the scan
    where,          \* position of the scan in create_registers / scan_instructions
    found,          \* create_registers: has_found_registers
    table,          \* the registers create_registers pushed, with where they were read
    current,        \* scan_instructions: cur_inst and cur_inst_sb
    parsed,         \* the instructions scan_instructions pushed
    result          \* the Result of the scan that ended

scanner == <<content, it, head, where, found, table, current, parsed, result>>

vars == <<files, preamble, phase, registers, instructions, scope, stack, ret,
          returned, out, owner, seen, nexec, failed, raised,
          content, it, head, where, found, table, current, parsed, result>>

(***************************************************************************)
(* Constants of the source.                                                *)
(***************************************************************************)
TRUE_F == 0
FALSE_F == 1

QUOTE == "\""
Digits == {"0", "1", "2", "3", "4", "5", "6", "7", "8", "9"}

n_res == <<"r", "e", "s">>
n_x == <<"x">>
n_y == <<"y">>
n_i == <<"i">>
n_z == <<"z">>
n_f == <<"f">>
n_g == <<"g">>
n_h == <<"h">>
n_main == <<"$", "m">>
n_p == <<"p">>
n_x1 == <<"x", "1">>

\* char::to_lowercase on the letters the inputs use
LowerChar(c) ==
    CASE c = "R" -> "r"
      [] c = "E" -> "e"
      [] c = "S" -> "s"
      [] OTHER -> c

to_lowercase(s) == [k \in 1..Len(s) |-> LowerChar(s[k])]

\* position of the first element of a vector satisfying Test, 0 for None
RECURSIVE FirstFrom(_, _, _)
FirstFrom(v, name, k) ==
    IF k > Len(v) THEN 0
    ELSE IF v[k].identifier = name THEN k
    ELSE FirstFrom(v, name, k + 1)

position(v, name) == FirstFrom(v, name, 1)

RemoveAt(v, k) == [j \in 1..(Len(v) - 1) |-> IF j < k THEN v[j] ELSE v[j + 1]]

Register(id, val, isvar) == [identifier |-> id, value |-> val, is_variable |-> isvar]

\* an IllError: its kind, the name or mnemonic it carries, the shadow hint of a
\* RegisterRedefinition, the file of a NoRegistersFound / NoMainInstruction
NoErr == [kind |-> "", name |-> <<>>, op |-> "", hint |-> "", file |-> 0]
Err(kind, name) == [kind |-> kind, name |-> name, op |-> "", hint |-> "", file |-> 0]
ErrOp(kind, op) == [kind |-> kind, name |-> <<>>, op |-> op, hint |-> "", file |-> 0]
ErrFile(kind, f) == [kind |-> kind, name |-> <<>>, op |-> "", hint |-> "", file |-> f]
ErrHint(kind, name, hint) == [kind |-> kind, name |-> name, op |-> "", hint |-> hint, file |-> 0]

(***************************************************************************)
(* Operands.                                                               *)
(***************************************************************************)
IntegerLiteral(n) == [t |-> "IntegerLiteral", left |-> TRUE, n |-> n, s |-> <<>>]
ProbableLeft(n) == [t |-> "ProbableLiteral", left |-> TRUE, n |-> n, s |-> <<>>]
ProbableRight(s) == [t |-> "ProbableLiteral", left |-> FALSE, n |-> 0, s |-> s]
StringLiteral(s) == [t |-> "StringLiteral", left |-> FALSE, n |-> 0, s |-> s]
ContainerReference(s) == [t |-> "ContainerReference", left |-> FALSE, n |-> 0, s |-> s]
RegisterReference(s) == [t |-> "RegisterReference", left |-> FALSE, n |-> 0, s |-> s]
VariableReference(s) == [t |-> "VariableReference", left |-> FALSE, n |-> 0, s |-> s]
InstructionReference(s) == [t |-> "InstructionReference", left |-> FALSE, n |-> 0, s |-> s]

\* the builtin signatures: mnemonic -> expected operand kinds
default_opcodes ==
    ("mov" :> <<"ProbableLiteral", "ContainerReference">>)
    @@ ("mod" :> <<"ProbableLiteral", "ProbableLiteral", "StringLiteral">>)
    @@ ("gt" :> <<"ProbableLiteral", "ProbableLiteral", "StringLiteral">>)
    @@ ("lt" :> <<"ProbableLiteral", "ProbableLiteral", "StringLiteral">>)
    @@ ("eq" :> <<"ProbableLiteral", "ProbableLiteral", "StringLiteral">>)
    @@ ("gte" :> <<"ProbableLiteral", "ProbableLiteral", "StringLiteral">>)
    @@ ("lte" :> <<"ProbableLiteral", "ProbableLiteral", "StringLiteral">>)
    @@ ("add" :> <<"ProbableLiteral", "ContainerReference">>)
    @@ ("mak" :> <<"StringLiteral", "ProbableLiteral">>)
    @@ ("dis" :> <<"ContainerReference">>)
    @@ ("dsl" :> <<"ContainerReference">>)
    @@ ("do" :> <<"InstructionReference">>)
    @@ ("dor" :> <<"InstructionReference", "StringLiteral">>)
    @@ ("del" :> <<"VariableReference">>)
    @@ ("pt" :> <<"StringLiteral">>)
    @@ ("ptl" :> <<"StringLiteral">>)
    @@ ("neg" :> <<"ContainerReference">>)
    @@ ("for" :> <<"StringLiteral", "IntegerLiteral", "IntegerLiteral",
                   "IntegerLiteral", "InstructionReference">>)
    @@ ("if" :> <<"InstructionReference", "InstructionReference",
                  "InstructionReference">>)

(***************************************************************************)
(* Tokens of a statement: a number (a text that parses as f64) or a text.  *)
(***************************************************************************)
Num(n) == [num |-> TRUE, n |-> n, s |-> <<>>]
Word(s) == [num |-> FALSE, n |-> 0, s |-> s]
Quoted(s) == [num |-> FALSE, n |-> 0, s |-> <<QUOTE>> \o s \o <<QUOTE>>]
Stmt(op, args) == [op |-> op, args |-> args]

RECURSIVE SelectChars(_, _)
SelectChars(s, drop) ==
    IF s = <<>> THEN <<>>
    ELSE IF s[1] \in drop THEN SelectChars(Tail(s), drop)
    ELSE <<s[1]>> \o SelectChars(Tail(s), drop)

strip_quotes(s) == SelectChars(s, {QUOTE})

is_arg_literal(tok) == tok.num

\* a number token holds a digit; a text holds one when one of its characters is a digit
is_arg_string(tok) == ~tok.num /\ \A k \in 1..Len(tok.s) : tok.s[k] \notin Digits

does_register_exist(regs, name) == position(regs, name) # 0

does_scoped_register_exist(inst, name) == position(inst.scope, name) # 0

RECURSIVE InstFrom(_, _, _)
InstFrom(insts, name, k) ==
    IF k > Len(insts) THEN 0
    ELSE IF insts[k].name = name THEN k
    ELSE InstFrom(insts, name, k + 1)

\* index of the first instruction called name, 0 for None
find_instruction(insts, name) == InstFrom(insts, name, 1)

does_instruction_exist(insts, name) == find_instruction(insts, name) # 0

\* no token taken for a container
is_container_never(inst, regs, tok) == FALSE

is_container(inst, regs, tok) ==
    ~tok.num /\ (does_register_exist(regs, tok.s) \/ does_scoped_register_exist(inst, tok.s))

\* the operand taken as it is written: no check of a string literal, and no
\* look at the instructions for a reference
ParseArg_unchecked(expected, tok, inst, insts, regs) ==
    [kind |-> "ok", err |-> NoErr,
     arg |-> CASE expected = "ProbableLiteral" ->
                     IF is_arg_literal(tok) THEN ProbableLeft(tok.n) ELSE ProbableRight(tok.s)
               [] expected = "IntegerLiteral" -> IntegerLiteral(tok.n)
               [] expected = "StringLiteral" -> StringLiteral(strip_quotes(tok.s))
               [] OTHER -> [t |-> expected, left |-> FALSE, n |-> 0, s |-> tok.s]]

\* one operand of parse_code: [kind: "ok" | "err" | "panic", arg, err]
ParseArg(expected, tok, inst, insts, regs) ==
    CASE expected = "ProbableLiteral" ->
            [kind |-> "ok", err |-> NoErr,
             arg |-> IF is_arg_literal(tok) THEN ProbableLeft(tok.n) ELSE ProbableRight(tok.s)]
      [] expected = "IntegerLiteral" ->
            IF tok.num
            THEN [kind |-> "ok", err |-> NoErr, arg |-> IntegerLiteral(tok.n)]
            ELSE [kind |-> "panic", err |-> NoErr, arg |-> IntegerLiteral(0)]
      [] expected = "StringLiteral" ->
            IF is_container(inst, regs, tok)
            THEN [kind |-> "err", err |-> Err("UnescapedStringLiteralIsContainer", tok.s),
                  arg |-> StringLiteral(<<>>)]
            ELSE IF ~is_arg_string(tok)
            THEN [kind |-> "err", err |-> Err("OpCodeInvalidArgument", tok.s),
                  arg |-> StringLiteral(<<>>)]
            ELSE [kind |-> "ok", err |-> NoErr, arg |-> StringLiteral(strip_quotes(tok.s))]
      [] expected = "ContainerReference" ->
            [kind |-> "ok", err |-> NoErr, arg |-> ContainerReference(tok.s)]
      [] expected = "RegisterReference" ->
            [kind |-> "ok", err |-> NoErr, arg |-> RegisterReference(tok.s)]
      [] expected = "VariableReference" ->
            [kind |-> "ok", err |-> NoErr, arg |-> VariableReference(tok.s)]
      [] OTHER ->
            IF ~tok.num /\ does_instruction_exist(insts, tok.s)
            THEN [kind |-> "ok", err |-> NoErr, arg |-> InstructionReference(tok.s)]
            ELSE [kind |-> "err", err |-> Err("NonExistentInstruction", tok.s),
                  arg |-> InstructionReference(<<>>)]

RECURSIVE ParseArgs(_, _, _, _, _, _, _)
ParseArgs(exp, toks, k, acc, inst, insts, regs) ==
    IF k > Len(exp) THEN [kind |-> "ok", err |-> NoErr, args |-> acc]
    ELSE LET Parsed(r) ==
                 IF r.kind # "ok" THEN [kind |-> r.kind, err |-> r.err, args |-> acc]
                 ELSE ParseArgs(exp, toks, k + 1, Append(acc, r.arg), inst, insts, regs)
         IN Parsed(ParseArg(exp[k], toks[k], inst, insts, regs))

\* parse_code: [kind: "ok" | "err" | "panic", code: the OpCode, err]
parse_code(inst, insts, regs, stmt) ==
    IF stmt.op \notin DOMAIN default_opcodes
    THEN [kind |-> "err", err |-> ErrOp("UnknownOpCode", stmt.op),
          code |-> [name |-> stmt.op, arguments |-> <<>>]]
    ELSE IF Len(stmt.args) # Len(default_opcodes[stmt.op])
    THEN [kind |-> "err", err |-> ErrOp("OpCodeArgumentMismatch", stmt.op),
          code |-> [name |-> stmt.op, arguments |-> <<>>]]
    ELSE LET Parsed(r) == [kind |-> r.kind, err |-> r.err,
                           code |-> [name |-> stmt.op, arguments |-> r.args]]
         IN Parsed(ParseArgs(default_opcodes[stmt.op], stmt.args, 1, <<>>, inst, insts, regs))

(***************************************************************************)
(* Instructions and the two scans.                                         *)
(***************************************************************************)
\* Instruction::new_default with the fields the scan fills in
Instruction(name, codes, is_main) ==
    [name |-> name, codes |-> codes, scope |-> <<Register(n_res, 0, TRUE)>>,
     is_main |-> is_main]

InstDef(name, is_main, stmts) == [name |-> name, is_main |-> is_main, stmts |-> stmts]
File(regs, insts) == [regs |-> regs, insts |-> insts]

\* the statement loop of one instruction body: every statement through parse_code
RECURSIVE ParseStmts(_, _, _, _, _, _)
ParseStmts(stmts, k, codes, inst, insts, regs) ==
    IF k > Len(stmts) THEN [kind |-> "ok", err |-> NoErr, codes |-> codes]
    ELSE LET Parsed(r) ==
                 IF r.kind # "ok" THEN [kind |-> r.kind, err |-> r.err, codes |-> codes]
                 ELSE ParseStmts(stmts, k + 1, Append(codes, r.code), inst, insts, regs)
         IN Parsed(parse_code(inst, insts, regs, stmts[k]))

\* the definitions of one file, from the k-th on; mf: master_file is Some
RECURSIVE ScanDefs(_, _, _, _, _)
\* the definition pushed before its body is parsed: the body may refer to it
ScanDefs_pushed_first(defs, k, insts, regs, mf) ==
    IF k > Len(defs) THEN [kind |-> "ok", err |-> NoErr, insts |-> insts, mf |-> mf]
    ELSE LET d == defs[k]
             cur_inst == Instruction(d.name, <<>>, d.is_main)
             Parsed(r) ==
                 IF r.kind # "ok"
                 THEN [kind |-> r.kind, err |-> r.err, insts |-> insts, mf |-> mf \/ d.is_main]
                 ELSE IF does_instruction_exist(insts, d.name)
                 THEN [kind |-> "err", err |-> Err("InstructionRedefinition", d.name),
                       insts |-> insts, mf |-> mf \/ d.is_main]
                 ELSE ScanDefs(defs, k + 1,
                               Append(insts, Instruction(d.name, r.codes, d.is_main)),
                               regs, mf \/ d.is_main)
         IN Parsed(ParseStmts(d.stmts, 1, <<>>, cur_inst, Append(insts, cur_inst), regs))

\* the definition pushed without a look at the names already there
ScanDefs_unchecked(defs, k, insts, regs, mf) ==
    IF k > Len(defs) THEN [kind |-> "ok", err |-> NoErr, insts |-> insts, mf |-> mf]
    ELSE LET d == defs[k]
             Parsed(r) ==
                 IF r.kind # "ok"
                 THEN [kind |-> r.kind, err |-> r.err, insts |-> insts, mf |-> mf \/ d.is_main]
                 ELSE ScanDefs(defs, k + 1,
                               Append(insts, Instruction(d.name, r.codes, d.is_main)),
                               regs, mf \/ d.is_main)
         IN Parsed(ParseStmts(d.stmts, 1, <<>>, Instruction(d.name, <<>>, d.is_main),
                              insts, regs))

ScanDefs(defs, k, insts, regs, mf) ==
    IF k > Len(defs) THEN [kind |-> "ok", err |-> NoErr, insts |-> insts, mf |-> mf]
    ELSE LET d == defs[k]
             cur_inst == Instruction(d.name, <<>>, d.is_main)
             mf2 == mf \/ d.is_main
             Parsed(r) ==
                 IF r.kind # "ok"
                 THEN [kind |-> r.kind, err |-> r.err, insts |-> insts, mf |-> mf2]
                 ELSE IF does_instruction_exist(insts, d.name)
                 THEN [kind |-> "err", err |-> Err("InstructionRedefinition", d.name),
                       insts |-> insts, mf |-> mf2]
                 ELSE ScanDefs(defs, k + 1,
                               Append(insts, Instruction(d.name, r.codes, d.is_main)),
                               regs, mf2)
         IN Parsed(ParseStmts(d.stmts, 1, <<>>, cur_inst, insts, regs))

RECURSIVE ScanFiles(_, _, _, _, _)
ScanFiles(fs, j, insts, regs, mf) ==
    IF j > Len(fs) THEN [kind |-> "ok", err |-> NoErr, insts |-> insts, mf |-> mf]
    ELSE LET Scanned(r) ==
                 IF r.kind # "ok" THEN r ELSE ScanFiles(fs, j + 1, r.insts, regs, r.mf)
         IN Scanned(ScanDefs(fs[j].insts, 1, insts, regs, mf))

\* index of the first instruction marked main, 0 for None
RECURSIVE MainFrom(_, _)
MainFrom(insts, k) ==
    IF k > Len(insts) THEN 0
    ELSE IF insts[k].is_main THEN k
    ELSE MainFrom(insts, k + 1)

\* the scan without its end: no instruction is marked, none is missed
scan_instructions_unmarked(fs, mainfiles, insts, regs) ==
    ScanFiles(fs, 1, insts, regs, FALSE)

\* scan_instructions up to the point where the main instruction is executed:
\* [kind: "ok" | "err" | "panic", insts, err, mf]
scan_instructions(fs, mainfiles, insts, regs) ==
    LET AtEnd(r) ==
            IF r.kind # "ok" THEN r
            ELSE IF Len(r.insts) = 0
            THEN IF Len(mainfiles) = 0
                 THEN [kind |-> "panic", err |-> NoErr, insts |-> r.insts, mf |-> r.mf]
                 ELSE [kind |-> "err", err |-> ErrFile("NoMainInstruction", 1),
                       insts |-> r.insts, mf |-> r.mf]
            ELSE IF Len(r.insts) = 1
            THEN IF Len(mainfiles) = 0
                 THEN [kind |-> "panic", err |-> NoErr, insts |-> r.insts, mf |-> r.mf]
                 ELSE [kind |-> "ok", err |-> NoErr, mf |-> TRUE,
                       insts |-> <<[r.insts[1] EXCEPT !.is_main = TRUE]>>]
            ELSE r
    IN AtEnd(ScanFiles(fs, 1, insts, regs, FALSE))

\* the declarations pushed without a look at the table
DeclareFrom_unchecked(names, k, regs) ==
    [kind |-> "ok", err |-> NoErr,
     regs |-> regs \o [i \in 1..(Len(names) - k + 1) |-> Register(names[i + k - 1], 0, FALSE)]]

\* the declarations of one file, from the k-th on
RECURSIVE DeclareFrom(_, _, _)
DeclareFrom(names, k, regs) ==
    IF k > Len(names) THEN [kind |-> "ok", err |-> NoErr, regs |-> regs]
    ELSE IF does_register_exist(regs, names[k])
    THEN [kind |-> "err", err |-> Err("RegisterRedefinition", names[k]), regs |-> regs]
    ELSE DeclareFrom(names, k + 1, Append(regs, Register(names[k], 0, FALSE)))

RECURSIVE RegistersFrom(_, _, _)
RegistersFrom(fs, j, regs) ==
    IF j > Len(fs) THEN [kind |-> "ok", err |-> NoErr, regs |-> regs]
    ELSE LET Declared(r) ==
                 IF r.kind # "ok" THEN r
                 ELSE IF Len(fs[j].regs) = 0
                 THEN [kind |-> "err", err |-> ErrFile("NoRegistersFound", j),
                       regs |-> r.regs]
                 ELSE RegistersFrom(fs, j + 1, r.regs)
         IN Declared(DeclareFrom(fs[j].regs, 1, regs))

\* the declarations of the first file only
create_registers_first(fs, regs) ==
    RegistersFrom(IF fs = <<>> THEN fs ELSE <<fs[1]>>, 1, regs)

\* create_registers: [kind: "ok" | "err", regs, err]
create_registers(fs, regs) == RegistersFrom(fs, 1, regs)

(***************************************************************************)
(* The opcodes that call no instruction, as functions of the operands `a`, *)
(* the global table and the scope: [kind: "ok" | "err", err, registers,    *)
(* scope, at, out], `at` being the position a removal took out (else 0).   *)
(***************************************************************************)
register_exists(name, v) == position(v, name) # 0
g_register_exists(name, g_registers) == register_exists(name, g_registers)
l_register_exists(name, sc) == register_exists(name, sc)
instruction_exists(name, insts) == find_instruction(insts, name) # 0

Done(regs, sc, at, o) ==
    [kind |-> "ok", err |-> NoErr, registers |-> regs, scope |-> sc, at |-> at, out |-> o]
Failure(e, regs, sc, o) ==
    [kind |-> "err", err |-> e, registers |-> regs, scope |-> sc, at |-> 0, out |-> o]

SetValue(v, name, val) == [v EXCEPT ![position(v, name)].value = val]
ValueOf(v, name) == v[position(v, name)].value

\* get_absolute_value: [ok, v, err]
get_absolute_value(ei, regs, sc) ==
    IF ei.left THEN [ok |-> TRUE, v |-> ei.n, err |-> NoErr]
    ELSE IF ~g_register_exists(ei.s, regs)
    THEN IF ~l_register_exists(ei.s, sc)
         THEN [ok |-> FALSE, v |-> 0, err |-> Err("NonExistentRegister", ei.s)]
         ELSE [ok |-> TRUE, v |-> ValueOf(sc, ei.s), err |-> NoErr]
    ELSE [ok |-> TRUE, v |-> ValueOf(regs, ei.s), err |-> NoErr]

\* the name check against the global table only
Redefinition_global(identifier, regs, sc) ==
    IF g_register_exists(identifier, regs)
    THEN ErrHint("RegisterRedefinition", identifier, "Register Reference")
    ELSE NoErr

\* the name check every variable-creating opcode starts with
Redefinition(identifier, regs, sc) ==
    IF g_register_exists(identifier, regs)
    THEN ErrHint("RegisterRedefinition", identifier, "Register Reference")
    ELSE IF l_register_exists(identifier, sc)
    THEN ErrHint("RegisterRedefinition", identifier, "Variable Reference")
    ELSE NoErr

\* the new variable pushed on the global table
mak_global(a, regs, sc, o) ==
    LET cont == get_absolute_value(a[2], regs, sc)
    IN IF ~cont.ok THEN Failure(cont.err, regs, sc, o)
       ELSE Done(Append(regs, Register(a[1].s, cont.v, TRUE)), sc, 0, o)

mak(a, regs, sc, o) ==
    LET identifier == a[1].s
        redef == Redefinition(identifier, regs, sc)
        cont == get_absolute_value(a[2], regs, sc)
    IN IF redef.kind # "" THEN Failure(redef, regs, sc, o)
       ELSE IF to_lowercase(identifier) = n_res
       THEN Failure(ErrHint("RegisterRedefinition", identifier, "default register"),
                    regs, sc, o)
       ELSE IF ~cont.ok THEN Failure(cont.err, regs, sc, o)
       ELSE Done(regs, Append(sc, Register(identifier, cont.v, TRUE)), 0, o)

Flip(v) == IF v = TRUE_F THEN FALSE_F ELSE TRUE_F

neg(a, regs, sc, o) ==
    LET value == a[1].s
    IN IF ~g_register_exists(value, regs)
       THEN IF ~l_register_exists(value, sc)
            THEN Failure(Err("NonExistentRegister", value), regs, sc, o)
            ELSE Done(regs, SetValue(sc, value, Flip(ValueOf(sc, value))), 0, o)
       ELSE Done(SetValue(regs, value, Flip(ValueOf(regs, value))), sc, 0, o)

\* mov looking for the container among the variables first
mov_local_first(a, regs, sc, o) ==
    LET value == get_absolute_value(a[1], regs, sc)
        identifier == a[2].s
    IN IF ~value.ok THEN Failure(value.err, regs, sc, o)
       ELSE IF ~l_register_exists(identifier, sc)
       THEN IF ~g_register_exists(identifier, regs)
            THEN Failure(Err("NonExistentRegister", identifier), regs, sc, o)
            ELSE Done(SetValue(regs, identifier, value.v), sc, 0, o)
       ELSE Done(regs, SetValue(sc, identifier, value.v), 0, o)

add(a, regs, sc, o) ==
    LET value == get_absolute_value(a[1], regs, sc)
        variable == a[2].s
    IN IF ~value.ok THEN Failure(value.err, regs, sc, o)
       ELSE IF l_register_exists(variable, sc)
       THEN Done(regs, SetValue(sc, variable, ValueOf(sc, variable) + value.v), 0, o)
       ELSE IF g_register_exists(variable, regs)
       THEN Done(SetValue(regs, variable, ValueOf(regs, variable) + value.v), sc, 0, o)
       ELSE Failure(Err("NonExistentRegister", variable), regs, sc, o)

mov(a, regs, sc, o) ==
    LET value == get_absolute_value(a[1], regs, sc)
        identifier == a[2].s
    IN IF ~value.ok THEN Failure(value.err, regs, sc, o)
       ELSE IF ~g_register_exists(identifier, regs)
       THEN IF ~l_register_exists(identifier, sc)
            THEN Failure(Err("NonExistentRegister", identifier), regs, sc, o)
            ELSE Done(regs, SetValue(sc, identifier, value.v), 0, o)
       ELSE Done(SetValue(regs, identifier, value.v), sc, 0, o)

Printed(nl, n) == [nl |-> nl, text |-> FALSE, n |-> n, s |-> <<>>]
PrintedText(nl, s) == [nl |-> nl, text |-> TRUE, n |-> 0, s |-> s]

\* dsl (nl) and dis (no nl)
display(nl, a, regs, sc, o) ==
    LET identifier == a[1].s
    IN IF ~g_register_exists(identifier, regs)
       THEN IF ~l_register_exists(identifier, sc)
            THEN Failure(Err("NonExistentRegister", identifier), regs, sc, o)
            ELSE Done(regs, sc, 0, Append(o, Printed(nl, ValueOf(sc, identifier))))
       ELSE Done(regs, sc, 0, Append(o, Printed(nl, ValueOf(regs, identifier))))

Abs(n) == IF n < 0 THEN -n ELSE n

\* the % of f64 on integral operands, by # 0: the remainder has the dividend's sign
Rem(x, by) == IF x < 0 THEN -((-x) % Abs(by)) ELSE x % Abs(by)

Holds_strict(op, x, y) ==
    CASE op = "eq" -> x = y
      [] op = "lt" -> x < y
      [] op = "gt" -> x > y
      [] op = "gte" -> x > y
      [] OTHER -> x < y

Holds(op, x, y) ==
    CASE op = "eq" -> x = y
      [] op = "lt" -> x < y
      [] op = "gt" -> x > y
      [] op = "gte" -> x >= y
      [] OTHER -> x <= y

\* the push before the name check: a refused name leaves the variable behind
binary_push_first(op, a, regs, sc, o) ==
    LET t_for_val == get_absolute_value(a[1], regs, sc)
        by_val == get_absolute_value(a[2], regs, sc)
        redef == Redefinition(a[3].s, regs, sc)
        pushed == Append(sc, Register(a[3].s, FALSE_F, TRUE))
    IN IF ~t_for_val.ok THEN Failure(t_for_val.err, regs, sc, o)
       ELSE IF ~by_val.ok THEN Failure(by_val.err, regs, sc, o)
       ELSE IF redef.kind # "" THEN Failure(redef, regs, pushed, o)
       ELSE Done(regs, pushed, 0, o)

\* mod, eq, lt, gt, gte, lte: the two values, then the name check, then the push
binary(op, a, regs, sc, o) ==
    LET t_for_val == get_absolute_value(a[1], regs, sc)
        by_val == get_absolute_value(a[2], regs, sc)
        identifier == a[3].s
        redef == Redefinition(identifier, regs, sc)
        value == IF op = "mod" THEN Rem(t_for_val.v, by_val.v)
                 ELSE IF Holds(op, t_for_val.v, by_val.v) THEN TRUE_F ELSE FALSE_F
    IN IF ~t_for_val.ok THEN Failure(t_for_val.err, regs, sc, o)
       ELSE IF ~by_val.ok THEN Failure(by_val.err, regs, sc, o)
       ELSE IF redef.kind # "" THEN Failure(redef, regs, sc, o)
       ELSE Done(regs, Append(sc, Register(identifier, value, TRUE)), 0, o)

\* del falling back on the global table, as the opcodes that read a container do
del_global(a, regs, sc, o) ==
    LET name == a[1].s
        pos == position(sc, name)
    IN IF pos # 0 THEN Done(regs, RemoveAt(sc, pos), pos, o)
       ELSE IF g_register_exists(name, regs)
       THEN Done(RemoveAt(regs, position(regs, name)), sc, 0, o)
       ELSE Failure(Err("NonExistentRegister", name), regs, sc, o)

del(a, regs, sc, o) ==
    LET name == a[1].s
        pos == position(sc, name)
    IN IF pos # 0 THEN Done(regs, RemoveAt(sc, pos), pos, o)
       ELSE Failure(Err("NonExistentRegister", name), regs, sc, o)

\* ptl (nl) and pt (no nl)
print(nl, a, regs, sc, o) == Done(regs, sc, 0, Append(o, PrintedText(nl, a[1].s)))

(***************************************************************************)
(* The run: begin_parsing, then the evaluation of the main instruction.    *)
(***************************************************************************)
\* a call of execute / c_execute: instruction inst at its pc-th opcode, working on
\* the scope vector of instruction sc; st, val, unr: where the opcode's handler
\* is and its locals; thenRuns, elseRuns: history of the `if` at pc
Frame(k, sc) == [inst |-> k, sc |-> sc, pc |-> 1, st |-> "start", val |-> 0, unr |-> 0,
                 thenRuns |-> 0, elseRuns |-> 0]

NoRet == [kind |-> "none", val |-> 0, err |-> NoErr]
OkRet(v) == [kind |-> "ok", val |-> v, err |-> NoErr]
ErrRet(e) == [kind |-> "err", val |-> 0, err |-> e]

Pending == [st |-> "pending", err |-> NoErr]
ReturnedNone == [st |-> "none", err |-> NoErr]
ReturnedSome(e) == [st |-> "some", err |-> e]

Top == stack[Len(stack)]
\* the scope vector the running opcode works on, and who pushed its entries
InUse == scope[Top.sc]
Pushers == owner[Top.sc]
Pushed == [inst |-> Top.inst, op |-> instructions[Top.inst].codes[Top.pc].name]
Seeded == [inst |-> 0, op |-> "new"]
Codes == instructions[Top.inst].codes
Code == Codes[Top.pc]
Arg(k) == Code.arguments[k]

\* the bound of the model on the number of opcodes one run executes
MaxExec == 12

Running == phase = "exec" /\ stack # <<>>
AtOp(name) ==
    /\ Running
    /\ nexec < MaxExec
    /\ ret.kind = "none"
    /\ Top.st = "start"
    /\ Top.pc <= Len(Codes)
    /\ Code.name = name

SetTop(f) == [stack EXCEPT ![Len(stack)] = f]
Advanced == [Top EXCEPT !.pc = @ + 1, !.st = "start"]
Pop == SubSeq(stack, 1, Len(stack) - 1)

Input == <<files, preamble, scanner>>
ScanState == <<instructions, raised>>
History == <<seen>>

\* an opcode handler returns Err(e), n opcodes having been started
Fail(e, n) ==
    /\ ret' = ErrRet(e)
    /\ failed' = IF failed.err.kind = "" THEN [err |-> e, at |-> n] ELSE failed

\* a thread of the process panics (an unwrap of None or of an Err, an index out of
\* bounds): the process is gone and begin_parsing returns nothing
Panic ==
    /\ phase' = "panic"
    /\ UNCHANGED <<files, preamble, registers, instructions, scope, stack, ret,
                   returned, out, owner, seen, nexec, failed, raised, scanner>>

\* an opcode that calls no instruction, r being what its handler computes
Simple(r) ==
    /\ nexec' = nexec + 1
    /\ registers' = r.registers
    /\ scope' = [scope EXCEPT ![Top.sc] = r.scope]
    /\ out' = r.out
    /\ owner' = [owner EXCEPT ![Top.sc] =
                    IF Len(r.scope) > Len(InUse) THEN Append(Pushers, Pushed)
                    ELSE IF r.at # 0 THEN RemoveAt(Pushers, r.at)
                    ELSE Pushers]
    /\ IF r.kind = "ok"
       THEN stack' = SetTop(Advanced) /\ UNCHANGED <<ret, failed>>
       ELSE Fail(r.err, nexec + 1) /\ UNCHANGED stack
    /\ UNCHANGED <<Input, ScanState, History, phase, returned>>

Mak == AtOp("mak") /\ Simple(mak(Code.arguments, registers, InUse, out))
Neg == AtOp("neg") /\ Simple(neg(Code.arguments, registers, InUse, out))
Add == AtOp("add") /\ Simple(add(Code.arguments, registers, InUse, out))
Mov == AtOp("mov") /\ Simple(mov(Code.arguments, registers, InUse, out))
Dsl == AtOp("dsl") /\ Simple(display(TRUE, Code.arguments, registers, InUse, out))
Dis == AtOp("dis") /\ Simple(display(FALSE, Code.arguments, registers, InUse, out))
Del == AtOp("del") /\ Simple(del(Code.arguments, registers, InUse, out))
Pt == AtOp("pt") /\ Simple(print(FALSE, Code.arguments, registers, InUse, out))
Ptl == AtOp("ptl") /\ Simple(print(TRUE, Code.arguments, registers, InUse, out))
Eq == AtOp("eq") /\ Simple(binary("eq", Code.arguments, registers, InUse, out))
Lt == AtOp("lt") /\ Simple(binary("lt", Code.arguments, registers, InUse, out))
Gt == AtOp("gt") /\ Simple(binary("gt", Code.arguments, registers, InUse, out))
Gte == AtOp("gte") /\ Simple(binary("gte", Code.arguments, registers, InUse, out))
Lte == AtOp("lte") /\ Simple(binary("lte", Code.arguments, registers, InUse, out))

\* x % 0.0 is NaN, which no integer models: the divisor is kept away from 0
Mod ==
    /\ AtOp("mod")
    /\ LET by == get_absolute_value(Arg(2), registers, InUse) IN by.ok => by.v # 0
    /\ Simple(binary("mod", Code.arguments, registers, InUse, out))

\* what a call with a scope vector of its own would pass: the callee's
c_scope_own(caller, callee) == callee

\* the scope vector an opcode handler passes to c_execute: the one it works on
c_scope(caller, callee) == caller.sc

\* c_execute of the instruction called name starts, the caller waiting in state st
Call(name, st, f) ==
    LET callee == find_instruction(instructions, name)
    IN stack' = Append(SetTop([f EXCEPT !.st = st]), Frame(callee, c_scope(f, callee)))

\* the bound of the model on the loop counter of `for`
MaxVal == 6

Control == <<registers, out>>

\* `for`: the checks, then the loop variable is pushed one before `from`
For ==
    /\ AtOp("for")
    /\ nexec' = nexec + 1
    /\ LET injected_var_name == Arg(1).s
           from == Arg(2).n
           inst == Arg(5).s
           redef == Redefinition(injected_var_name, registers, InUse)
           start == from - 1
       IN IF redef.kind # ""
          THEN Fail(redef, nexec + 1) /\ UNCHANGED <<stack, scope, owner>>
          ELSE IF ~instruction_exists(inst, instructions)
          THEN Fail(Err("NonExistentInstruction", inst), nexec + 1)
               /\ UNCHANGED <<stack, scope, owner>>
          ELSE /\ scope' = [scope EXCEPT ![Top.sc] =
                               Append(InUse, Register(injected_var_name, start, TRUE))]
               /\ owner' = [owner EXCEPT ![Top.sc] = Append(Pushers, Pushed)]
               /\ stack' = SetTop([Top EXCEPT !.st = "loop", !.val = start])
               /\ UNCHANGED <<ret, failed>>
    /\ UNCHANGED <<Input, ScanState, History, Control, phase, returned>>

\* the condition of the while loop of `for`
loop_condition(val, through) == IF val > through THEN val > through ELSE val < through

\* the loop condition holds: the body is called
ForBody ==
    /\ Running /\ ret.kind = "none" /\ Top.st = "loop"
    /\ loop_condition(Top.val, Arg(3).n)
    /\ Abs(Top.val) <= MaxVal
    /\ Call(Arg(5).s, "body", Top)
    /\ seen' = Append(seen, [d |-> Len(stack), var |-> Arg(1).s,
                             there |-> l_register_exists(Arg(1).s, InUse),
                             v |-> IF l_register_exists(Arg(1).s, InUse)
                                   THEN ValueOf(InUse, Arg(1).s) ELSE 0])
    /\ UNCHANGED <<Input, ScanState, Control, scope, owner, ret, failed, nexec, phase, returned>>

\* the body returned Ok: the variable is read again, stepped and written back
ForNext ==
    /\ Running /\ ret.kind = "ok" /\ Top.st = "body"
    /\ LET injected_var_name == Arg(1).s
           from == Arg(2).n
           through == Arg(3).n
           step == Arg(4).n
       IN IF ~l_register_exists(injected_var_name, InUse)
          THEN Panic
          ELSE LET read == ValueOf(InUse, injected_var_name)
                   val == IF from > through THEN read - step ELSE read + step
               IN /\ scope' = [scope EXCEPT ![Top.sc] =
                                  SetValue(InUse, injected_var_name, val)]
                  /\ stack' = SetTop([Top EXCEPT !.st = "loop", !.val = val])
                  /\ ret' = NoRet
                  /\ UNCHANGED <<Input, ScanState, History, Control, owner, failed, nexec,
                                 phase, returned>>

\* the loop condition fails: the first variable of that name is removed
ForEnd ==
    /\ Running /\ ret.kind = "none" /\ Top.st = "loop"
    /\ ~loop_condition(Top.val, Arg(3).n)
    /\ LET pos == position(InUse, Arg(1).s)
       IN IF pos = 0 THEN Panic
          ELSE /\ scope' = [scope EXCEPT ![Top.sc] = RemoveAt(InUse, pos)]
               /\ owner' = [owner EXCEPT ![Top.sc] = RemoveAt(Pushers, pos)]
               /\ stack' = SetTop(Advanced)
               /\ UNCHANGED <<Input, ScanState, History, Control, ret, failed, nexec,
                              phase, returned>>

\* `if`: the condition instruction is called
If ==
    /\ AtOp("if")
    /\ nexec' = nexec + 1
    /\ IF ~instruction_exists(Arg(1).s, instructions)
       THEN Fail(Err("NonExistentInstruction", Arg(1).s), nexec + 1) /\ UNCHANGED stack
       ELSE /\ Call(Arg(1).s, "cond", [Top EXCEPT !.thenRuns = 0, !.elseRuns = 0])
            /\ UNCHANGED <<ret, failed>>
    /\ UNCHANGED <<Input, ScanState, History, Control, scope, owner, phase, returned>>

\* the test against the other sentinel
takes_then_on_false(unr) == unr = FALSE_F

\* the test `if` makes on what the condition returned
takes_then(unr) == unr = TRUE_F

\* the condition returned Ok(unr): one of the two branches is called
IfBranch ==
    /\ Running /\ ret.kind = "ok" /\ Top.st = "cond"
    /\ LET unr == ret.val
           a_inst == Arg(2).s
           b_inst == Arg(3).s
       IN IF ~instruction_exists(a_inst, instructions)
          THEN Fail(Err("NonExistentInstruction", a_inst), nexec) /\ UNCHANGED stack
          ELSE IF ~instruction_exists(b_inst, instructions)
          THEN Fail(Err("NonExistentInstruction", b_inst), nexec) /\ UNCHANGED stack
          ELSE IF takes_then(unr)
          THEN /\ Call(a_inst, "branch", [Top EXCEPT !.unr = unr, !.thenRuns = @ + 1])
               /\ ret' = NoRet /\ UNCHANGED failed
          ELSE /\ Call(b_inst, "branch", [Top EXCEPT !.unr = unr, !.elseRuns = @ + 1])
               /\ ret' = NoRet /\ UNCHANGED failed
    /\ UNCHANGED <<Input, ScanState, History, Control, scope, owner, nexec, phase, returned>>

\* the branch returned Ok: `if` is over
IfEnd ==
    /\ Running /\ ret.kind = "ok" /\ Top.st = "branch"
    /\ stack' = SetTop(Advanced)
    /\ ret' = NoRet
    /\ UNCHANGED <<Input, ScanState, History, Control, scope, owner, failed, nexec,
                   phase, returned>>

\* `do`: the instruction is called
Do ==
    /\ AtOp("do")
    /\ nexec' = nexec + 1
    /\ IF instruction_exists(Arg(1).s, instructions)
       THEN Call(Arg(1).s, "do", Top) /\ UNCHANGED <<ret, failed>>
       ELSE Fail(Err("NonExistentInstruction", Arg(1).s), nexec + 1) /\ UNCHANGED stack
    /\ UNCHANGED <<Input, ScanState, History, Control, scope, owner, phase, returned>>

\* `do` unwraps what c_execute returned: an Ok goes on, an Err panics
DoEnd ==
    /\ Running /\ ret.kind # "none" /\ Top.st = "do"
    /\ IF ret.kind = "err" THEN Panic
       ELSE /\ stack' = SetTop(Advanced)
            /\ ret' = NoRet
            /\ UNCHANGED <<Input, ScanState, History, Control, scope, owner, failed, nexec,
                           phase, returned>>

\* `dor`: the name check, then the instruction is called
Dor ==
    /\ AtOp("dor")
    /\ nexec' = nexec + 1
    /\ LET identifier == Arg(2).s
           redef == Redefinition(identifier, registers, InUse)
       IN IF redef.kind # "" THEN Fail(redef, nexec + 1) /\ UNCHANGED stack
          ELSE IF instruction_exists(Arg(1).s, instructions)
          THEN Call(Arg(1).s, "dor", Top) /\ UNCHANGED <<ret, failed>>
          ELSE Fail(Err("NonExistentInstruction", Arg(1).s), nexec + 1) /\ UNCHANGED stack
    /\ UNCHANGED <<Input, ScanState, History, Control, scope, owner, phase, returned>>

\* the instruction returned Ok(res): the value is pushed under the name
DorEnd ==
    /\ Running /\ ret.kind = "ok" /\ Top.st = "dor"
    /\ scope' = [scope EXCEPT ![Top.sc] = Append(InUse, Register(Arg(2).s, ret.val, TRUE))]
    /\ owner' = [owner EXCEPT ![Top.sc] = Append(Pushers, Pushed)]
    /\ stack' = SetTop(Advanced)
    /\ ret' = NoRet
    /\ UNCHANGED <<Input, ScanState, History, Control, failed, nexec, phase, returned>>

\* position of the first variable whose lowercased name is "res", 0 for None
RECURSIVE ResFrom(_, _)
ResFrom(sc, k) ==
    IF k > Len(sc) THEN 0
    ELSE IF to_lowercase(sc[k].identifier) = n_res THEN k
    ELSE ResFrom(sc, k + 1)

\* c_execute is through its opcodes: it returns the value of `res`
CExecuteOk ==
    /\ Running /\ ret.kind = "none" /\ Top.st = "start"
    /\ Len(stack) > 1
    /\ Top.pc > Len(Codes)
    /\ LET res_var == ResFrom(InUse, 1)
       IN IF res_var = 0 THEN Panic
          ELSE /\ stack' = Pop
               /\ ret' = OkRet(InUse[res_var].value)
               /\ UNCHANGED <<Input, ScanState, History, Control, scope, owner, failed,
                              nexec, phase, returned>>

\* an opcode of c_execute returned Err, or the handler that called c_execute
\* passes the Err it got on: c_execute returns it
CExecuteErr ==
    /\ Running /\ ret.kind = "err" /\ Top.st # "do"
    /\ Len(stack) > 1
    /\ stack' = Pop
    /\ UNCHANGED <<Input, ScanState, History, Control, scope, owner, ret, failed, nexec,
                   phase, returned>>

\* execute of the main instruction is through its opcodes: scan_instructions and
\* begin_parsing return
ExecuteOk ==
    /\ Running /\ ret.kind = "none" /\ Top.st = "start"
    /\ Len(stack) = 1
    /\ Top.pc > Len(Codes)
    /\ stack' = <<>>
    /\ phase' = "done"
    /\ returned' = ReturnedNone
    /\ UNCHANGED <<Input, ScanState, History, Control, scope, owner, ret, failed, nexec>>

\* an opcode of the main instruction returned Err: execute, scan_instructions and
\* begin_parsing return it
ExecuteErr ==
    /\ Running /\ ret.kind = "err" /\ Top.st # "do"
    /\ Len(stack) = 1
    /\ stack' = <<>>
    /\ phase' = "done"
    /\ returned' = ReturnedSome(ret.err)
    /\ UNCHANGED <<Input, ScanState, History, Control, scope, owner, ret, failed, nexec>>

Evaluation == <<registers, scope, stack, ret, out, owner, seen, nexec, failed>>

\* begin_parsing, first statement: the preamble scan, its result dropped
ScanPreamble ==
    /\ phase = "scan_pre"
    /\ LET Scanned(r) ==
               IF r.kind = "panic" THEN Panic
               ELSE /\ instructions' = r.insts
                    /\ raised' = IF r.kind = "err" THEN Append(raised, r.err) ELSE raised
                    /\ phase' = "create_regs"
                    /\ UNCHANGED <<Input, Evaluation, returned>>
       IN Scanned(scan_instructions(preamble, files, instructions, registers))

\* begin_parsing, second statement: create_registers, an Err returned
CreateRegisters ==
    /\ phase = "create_regs"
    /\ LET Created(r) ==
               /\ registers' = r.regs
               /\ raised' = IF r.kind = "err" THEN Append(raised, r.err) ELSE raised
               /\ phase' = IF r.kind = "err" THEN "done" ELSE "scan_main"
               /\ returned' = IF r.kind = "err" THEN ReturnedSome(r.err) ELSE returned
       IN Created(create_registers(files, registers))
    /\ UNCHANGED <<Input, instructions, scope, stack, ret, out, owner, seen, nexec, failed>>

\* begin_parsing, third statement: the scan of the main files, which ends by
\* starting execute on the first instruction marked main
ScanMain ==
    /\ phase = "scan_main"
    /\ LET Scanned(r) ==
               LET main == MainFrom(r.insts, 1)
               IN IF r.kind = "panic" \/ (r.kind = "ok" /\ (main = 0 \/ ~r.mf)) THEN Panic
                  ELSE IF r.kind = "err"
                  THEN /\ instructions' = r.insts
                       /\ raised' = Append(raised, r.err)
                       /\ phase' = "done"
                       /\ returned' = ReturnedSome(r.err)
                       /\ UNCHANGED <<Input, Evaluation>>
                  ELSE /\ instructions' = r.insts
                       /\ phase' = "exec"
                       /\ stack' = <<Frame(main, main)>>
                       /\ scope' = [k \in 1..Len(r.insts) |-> r.insts[k].scope]
                       /\ owner' = [k \in 1..Len(r.insts) |-> <<Seeded>>]
                       /\ UNCHANGED <<Input, raised, returned, registers, ret, out, seen,
                                      nexec, failed>>
       IN Scanned(scan_instructions(files, files, instructions, registers))

(***************************************************************************)
(* The inputs: the source files of a run.  A main file declares its        *)
(* registers and defines g, then f, then the main instruction $m, so that  *)
(* f may refer to g and $m to both.                                        *)
(***************************************************************************)
MaxBound == 3
MaxStep == 2

n_Res == <<"R", "e", "s">>

s_for(a, b, st, body) ==
    Stmt("for", <<Quoted(n_i), Num(a), Num(b), Num(st), Word(body)>>)
s_do(f) == Stmt("do", <<Word(f)>>)
s_dor(f, v) == Stmt("dor", <<Word(f), Quoted(v)>>)
s_if(c, a, b) == Stmt("if", <<Word(c), Word(a), Word(b)>>)
s_mak(v, tok) == Stmt("mak", <<Quoted(v), tok>>)
s_mov(tok, c) == Stmt("mov", <<tok, Word(c)>>)
s_add(tok, c) == Stmt("add", <<tok, Word(c)>>)
s_neg(c) == Stmt("neg", <<Word(c)>>)
s_dis(c) == Stmt("dis", <<Word(c)>>)
s_dsl(c) == Stmt("dsl", <<Word(c)>>)
s_del(v) == Stmt("del", <<Word(v)>>)
s_bin(op, x, y, v) == Stmt(op, <<x, y, Quoted(v)>>)
s_pt(v) == Stmt("pt", <<Quoted(v)>>)
s_ptl(v) == Stmt("ptl", <<Quoted(v)>>)

\* the bodies of g: it calls nothing
GBodies ==
    { <<>>, <<s_mak(n_i, Num(0))>>, <<s_mak(n_y, Num(3))>>, <<s_mov(Num(1), n_res)>>,
      <<s_del(n_z)>>, <<s_neg(n_res)>> }

\* the bodies of f
FBodies ==
    { <<>>, <<s_mak(n_y, Num(3))>>, <<s_mov(Num(1), n_res)>>, <<s_do(n_g)>>,
      <<s_dor(n_g, n_y)>>, <<s_del(n_i), s_dor(n_g, n_i)>>, <<s_add(Num(1), n_i)>>,
      <<s_del(n_res)>>, <<s_dsl(n_y)>>, <<s_for(1, 1, 1, n_g)>> }

\* the statements of $m that call an instruction
CallStmts ==
    { s_do(n_f), s_dor(n_f, n_y), s_dor(n_f, n_i), s_if(n_g, n_f, n_g),
      s_if(n_f, n_g, n_f), s_if(n_f, n_f, n_g), s_for(1, 1, 1, n_f), s_for(1, 2, 1, n_f), s_dor(n_f, n_x) }

\* the statements of $m that look at what a call left behind
ProbeStmts == { s_dsl(n_y), s_mak(n_y, Num(1)), s_dsl(n_res), s_mov(Num(2), n_res) }

\* the statements of $m that call nothing
SimpleStmts ==
    { s_mak(n_y, Num(3)), s_mak(n_y, Word(n_x)), s_mak(n_Res, Num(1)),
      s_mov(Num(5), n_res), s_mov(Num(5), n_x), s_mov(Num(5), n_y), s_mov(Word(n_y), n_x),
      s_add(Num(5), n_res), s_add(Word(n_x), n_x), s_neg(n_res), s_neg(n_x), s_neg(n_y),
      s_dis(n_res), s_dis(n_x), s_dsl(n_x), s_dsl(n_y), s_del(n_y), s_del(n_res), s_del(n_x),
      s_pt(n_y), s_ptl(n_y), s_bin("mod", Num(5), Num(3), n_y),
      s_bin("mod", Num(-5), Num(3), n_y), s_mak(n_x, Num(1)),
      s_bin("gt", Num(1), Num(2), n_x), s_bin("eq", Word(n_z), Num(2), n_x) }
    \cup { s_bin(op, Num(a), Num(2), n_y) : op \in {"eq", "lt", "gt", "gte", "lte"},
                                              a \in 1..MaxBound }

\* the bodies of f under a loop
LoopBodies == { <<>>, <<s_add(Num(1), n_x)>>, <<s_dsl(n_i)>> }

RegisterLists == { <<n_x>>, <<n_x, n_res>> }

Program(regs, g, f, m) ==
    [preamble |-> <<>>,
     files |-> <<File(regs, <<InstDef(n_g, FALSE, g), InstDef(n_f, FALSE, f),
                              InstDef(n_main, TRUE, m)>>)>>]

LoopPrograms ==
    { Program(<<n_x>>, <<>>, f, <<s_for(a, b, st, n_f)>>) :
        f \in LoopBodies, a \in 0..MaxBound, b \in 0..MaxBound, st \in 1..MaxStep }

CallPrograms ==
    { Program(regs, g, f, <<c>>) :
        regs \in RegisterLists, g \in GBodies, f \in FBodies, c \in CallStmts }
    \cup
    { Program(regs, g, f, <<c, p>>) :
        regs \in RegisterLists, g \in GBodies, f \in FBodies, c \in CallStmts,
        p \in ProbeStmts }

SimplePrograms ==
    { Program(regs, <<>>, <<>>, <<a>>) : regs \in RegisterLists, a \in SimpleStmts }
    \cup
    { Program(regs, <<>>, <<>>, <<a, b>>) :
        regs \in RegisterLists, a \in SimpleStmts, b \in SimpleStmts }

\* files with the faults the scans report, with and without preamble files
GoodFile == File(<<n_x>>, <<InstDef(n_main, TRUE, <<s_mov(Num(5), n_x)>>)>>)
PlainFile == File(<<n_x>>, <<InstDef(n_f, FALSE, <<s_mov(Num(5), n_x)>>)>>)
TwoPlainFile ==
    File(<<n_x>>, <<InstDef(n_f, FALSE, <<>>), InstDef(n_g, FALSE, <<s_do(n_f)>>)>>)

MainFiles ==
    { GoodFile, PlainFile, TwoPlainFile,
      File(<<>>, <<InstDef(n_main, TRUE, <<>>)>>),
      File(<<n_x, n_x>>, <<InstDef(n_main, TRUE, <<>>)>>),
      File(<<n_x>>, <<>>),
      File(<<n_x>>, <<InstDef(n_f, FALSE, <<>>), InstDef(n_f, FALSE, <<>>)>>),
      File(<<n_x>>, <<InstDef(n_main, TRUE, <<s_do(n_main)>>)>>),
      File(<<n_x>>, <<InstDef(n_main, TRUE, <<s_do(n_p)>>)>>),
      File(<<n_x>>, <<InstDef(n_main, TRUE, <<Stmt("nop", <<>>)>>)>>),
      File(<<n_x>>, <<InstDef(n_main, TRUE, <<Stmt("mov", <<Num(5)>>)>>)>>),
      File(<<n_x>>, <<InstDef(n_main, TRUE, <<Stmt("mak", <<Word(n_x), Num(1)>>)>>)>>),
      File(<<n_x>>, <<InstDef(n_main, TRUE, <<Stmt("mak", <<Word(n_res), Num(1)>>)>>)>>),
      File(<<n_x>>, <<InstDef(n_main, TRUE, <<Stmt("mak", <<Num(5), Num(1)>>)>>)>>),
      File(<<n_x1>>, <<InstDef(n_main, TRUE, <<Stmt("mak", <<Word(n_x1), Num(1)>>)>>)>>),
      File(<<n_x>>, <<InstDef(n_main, TRUE, <<Stmt("mak", <<Quoted(n_x1), Num(1)>>)>>)>>),
      File(<<n_x>>, <<InstDef(n_main, TRUE,
                              <<Stmt("for", <<Quoted(n_i), Word(n_x), Num(1), Num(1),
                                              Word(n_main)>>)>>)>>) }

PreambleFiles ==
    { File(<<>>, <<InstDef(n_p, FALSE, <<s_mov(Num(1), n_res)>>)>>),
      File(<<n_z>>, <<InstDef(n_p, FALSE, <<>>), InstDef(n_f, FALSE, <<s_do(n_p)>>)>>),
      File(<<>>, <<InstDef(n_p, FALSE, <<>>), InstDef(n_p, FALSE, <<>>)>>),
      File(<<>>, <<InstDef(n_p, FALSE, <<s_mov(Num(1), n_x)>>),
                   InstDef(n_h, TRUE, <<s_do(n_p)>>)>>),
      File(<<>>, <<InstDef(n_p, FALSE, <<s_do(n_z)>>)>>),
      File(<<>>, <<>>) }

\* a second main file, with a register of its own
OtherFile(insts) == File(<<n_z>>, insts)

FilePrograms ==
    { [preamble |-> pre, files |-> fs] :
        pre \in {<<>>} \cup { <<p>> : p \in PreambleFiles },
        fs \in {<<>>} \cup { <<m>> : m \in MainFiles }
               \cup { <<GoodFile, m>> : m \in MainFiles }
               \cup { <<GoodFile, OtherFile(<<InstDef(n_f, FALSE, <<s_mov(Num(1), n_z)>>)>>)>>,
                      <<GoodFile, OtherFile(<<InstDef(n_main, TRUE, <<>>)>>)>>,
                      <<OtherFile(<<InstDef(n_f, FALSE, <<s_mov(Num(1), n_z)>>)>>), GoodFile>>,
                      <<OtherFile(<<>>), GoodFile>> } }

Programs == LoopPrograms \cup CallPrograms \cup SimplePrograms \cup FilePrograms

\* no file is scanned character by character
Unread ==
    /\ content = <<>>
    /\ it = 1
    /\ head = [line |-> 1, column |-> 1]
    /\ where = "idle"
    /\ found = FALSE
    /\ table = <<>>
    /\ current = <<>>
    /\ parsed = <<>>
    /\ result = <<>>

Init ==
    /\ \E p \in Programs : files = p.files /\ preamble = p.preamble
    /\ phase = "scan_pre"
    /\ registers = <<>>
    /\ instructions = <<>>
    /\ scope = <<>>
    /\ stack = <<>>
    /\ ret = NoRet
    /\ returned = Pending
    /\ out = <<>>
    /\ owner = <<>>
    /\ seen = <<>>
    /\ nexec = 0
    /\ failed = [err |-> NoErr, at |-> 0]
    /\ raised = <<>>
    /\ Unread

Next ==
    \/ ScanPreamble \/ CreateRegisters \/ ScanMain
    \/ Mak \/ Neg \/ Add \/ Mov \/ Dsl \/ Dis \/ Del \/ Pt \/ Ptl
    \/ Mod \/ Eq \/ Lt \/ Gt \/ Gte \/ Lte
    \/ For \/ ForBody \/ ForNext \/ ForEnd
    \/ If \/ IfBranch \/ IfEnd
    \/ Do \/ DoEnd \/ Dor \/ DorEnd
    \/ CExecuteOk \/ CExecuteErr \/ ExecuteOk \/ ExecuteErr

Spec == Init /\ [][Next]_vars

(***************************************************************************)
(* The scans of a file, character by character: the ReadHead, the reads   *)
(* of the character iterator, and parse_code on the text of a statement.  *)
(***************************************************************************)
NEWLINE == "\n"
REGISTER_DEF == "+"
DEF_END == ";"
INST_DEF == "$"
INST_PARAM_BEGIN == "("
INST_PARAM_END == ")"
INST_CODES_BEGIN == "{"
INST_CODES_END == "}"
COMMENT_SINGLE_LINE == ">"

\* char::is_whitespace, and \S of the pattern of parse_code
Whitespace == {" ", "\n", "\t"}

ReadHead(line, column) == [line |-> line, column |-> column]
new == ReadHead(1, 1)
new_by(h, line, col) == ReadHead(h.line + line, h.column + col)
advance_by(h, line, col) == ReadHead(h.line + line, h.column + col)
advance(h, ch) ==
    IF ch = NEWLINE THEN ReadHead(h.line + 1, 0)
    ELSE advance_by(h, 0, 1)

newlines(x) == Cardinality({ k \in 1..Len(x) : x[k] = NEWLINE })

\* take_while(|c| !ch.contains(c)) from the i-th character: the index of the
\* first character of ch, which take_while consumes too; Len + 1 at the end
RECURSIVE StopFrom(_, _, _)
StopFrom(text, i, ch) ==
    IF i > Len(text) THEN i
    ELSE IF text[i] \in ch THEN i
    ELSE StopFrom(text, i + 1, ch)

\* what a read returns, (newlines, columns, text), and where the iterator is left
\* the iterator left at the stop character
Read_stop_kept(z, dat, stop, text) ==
    [nl |-> newlines(z), col |-> Len(z) - newlines(z), dat |-> dat,
     from |-> stop - Len(z), to |-> stop - 1, it |-> stop]

Read(z, dat, stop, text) ==
    [nl |-> newlines(z), col |-> Len(z) - newlines(z), dat |-> dat,
     from |-> stop - Len(z), to |-> stop - 1,
     it |-> IF stop > Len(text) THEN stop ELSE stop + 1]

NotWhitespace(c) == c \notin Whitespace

read_until_spare_ws(text, i, ch) ==
    LET Stopped(stop) == Read(SubSeq(text, i, stop - 1), SubSeq(text, i, stop - 1), stop, text)
    IN Stopped(StopFrom(text, i, ch))

read_until(text, i, ch) ==
    LET Stopped(stop) ==
            Read(SubSeq(text, i, stop - 1),
                 SelectSeq(SubSeq(text, i, stop - 1), NotWhitespace), stop, text)
    IN Stopped(StopFrom(text, i, ch))

\* on a clone of the iterator: the iterator itself is left where it is
any_exists_until(text, i, exists, until) ==
    LET Among(dat) == \E k \in 1..Len(dat) : dat[k] \in exists
    IN Among(read_until(text, i, until).dat)

traverse_read(h, data) == advance_by(h, data.nl, data.col)

\* str::trim
RECURSIVE TrimStart(_)
TrimStart(x) ==
    IF x # <<>> /\ x[1] \in Whitespace THEN TrimStart(Tail(x)) ELSE x

RECURSIVE TrimEnd(_)
TrimEnd(x) ==
    IF x # <<>> /\ x[Len(x)] \in Whitespace THEN TrimEnd(SubSeq(x, 1, Len(x) - 1)) ELSE x

trim(x) == TrimEnd(TrimStart(x))

\* str::split(" "): the pieces between the spaces, one (empty) piece for ""
RECURSIVE split(_, _, _)
split(x, k, piece) ==
    IF k > Len(x) THEN <<piece>>
    ELSE IF x[k] = " " THEN <<piece>> \o split(x, k + 1, <<>>)
    ELSE split(x, k + 1, Append(piece, x[k]))

\* the pattern ('.*?'|".*?"|\S+) of parse_code: a match starts at a character
\* that is no whitespace; it is a quoted text closed on the same line, or else
\* the run of characters up to the next whitespace
RECURSIVE CloseFrom(_, _, _)
CloseFrom(code, j, q) ==
    IF j > Len(code) THEN 0
    ELSE IF code[j] = q THEN j
    ELSE IF code[j] = NEWLINE THEN 0
    ELSE CloseFrom(code, j + 1, q)

RECURSIVE RunEnd(_, _)
RunEnd(code, i) ==
    IF i + 1 <= Len(code) /\ code[i + 1] \notin Whitespace THEN RunEnd(code, i + 1) ELSE i

MatchEnd(code, i) ==
    LET Closed(j) == IF j # 0 THEN j ELSE RunEnd(code, i)
    IN IF code[i] \in {"'", QUOTE} THEN Closed(CloseFrom(code, i + 1, code[i]))
       ELSE RunEnd(code, i)

RECURSIVE matches(_, _)
matches(code, i) ==
    IF i > Len(code) THEN <<>>
    ELSE IF code[i] \in Whitespace THEN matches(code, i + 1)
    ELSE LET Matched(e) == <<SubSeq(code, i, e)>> \o matches(code, e + 1)
         IN Matched(MatchEnd(code, i))

\* str::parse::<f64> on the decimal numbers the sources of the model write
DigitValue ==
    ("0" :> 0) @@ ("1" :> 1) @@ ("2" :> 2) @@ ("3" :> 3) @@ ("4" :> 4)
    @@ ("5" :> 5) @@ ("6" :> 6) @@ ("7" :> 7) @@ ("8" :> 8) @@ ("9" :> 9)

IsDecimal(x) == x # <<>> /\ \A k \in 1..Len(x) : x[k] \in Digits

RECURSIVE Decimal(_, _, _)
Decimal(x, k, acc) ==
    IF k > Len(x) THEN acc ELSE Decimal(x, k + 1, acc * 10 + DigitValue[x[k]])

Token(x) ==
    IF IsDecimal(x) THEN Num(Decimal(x, 1, 0))
    ELSE IF Len(x) > 1 /\ x[1] = "-" /\ IsDecimal(Tail(x)) THEN Num(0 - Decimal(Tail(x), 1, 0))
    ELSE Word(x)

\* OpCode.name of the default opcodes, letter by letter
Mnemonic ==
    ("mov" :> <<"m", "o", "v">>) @@ ("mod" :> <<"m", "o", "d">>)
    @@ ("gt" :> <<"g", "t">>) @@ ("lt" :> <<"l", "t">>) @@ ("eq" :> <<"e", "q">>)
    @@ ("gte" :> <<"g", "t", "e">>) @@ ("lte" :> <<"l", "t", "e">>)
    @@ ("add" :> <<"a", "d", "d">>) @@ ("mak" :> <<"m", "a", "k">>)
    @@ ("dis" :> <<"d", "i", "s">>) @@ ("dsl" :> <<"d", "s", "l">>)
    @@ ("do" :> <<"d", "o">>) @@ ("dor" :> <<"d", "o", "r">>)
    @@ ("del" :> <<"d", "e", "l">>) @@ ("pt" :> <<"p", "t">>)
    @@ ("ptl" :> <<"p", "t", "l">>) @@ ("neg" :> <<"n", "e", "g">>)
    @@ ("for" :> <<"f", "o", "r">>) @@ ("if" :> <<"i", "f">>)

\* find_opcode on the text of a name: "" when no opcode has it
find_opcode(x) ==
    IF \E o \in DOMAIN Mnemonic : Mnemonic[o] = x
    THEN CHOOSE o \in DOMAIN Mnemonic : Mnemonic[o] = x
    ELSE ""

\* parse_code on the text of a statement, rh being the ReadHead after the read:
\* the OpCode, the position stored in it, and the text
parse_code_text(rh, inst, insts, regs, code) ==
    LET data == matches(code, 1)
        nls == newlines(code)
        error_rh == new_by(rh, -nls, (-rh.column) + Len(code))
        Located(r) == [kind |-> r.kind, err |-> r.err, location |-> error_rh,
                       code |-> [name |-> r.code.name, arguments |-> r.code.arguments,
                                 location |-> error_rh]]
    IN IF data = <<>>
       THEN [kind |-> "panic", err |-> NoErr, location |-> error_rh,
             code |-> [name |-> "", arguments |-> <<>>, location |-> error_rh]]
       ELSE Located(parse_code(inst, insts, regs,
                               Stmt(find_opcode(data[1]),
                                    [k \in 1..(Len(data) - 1) |-> Token(data[k + 1])])))

(***************************************************************************)
(* create_registers and scan_instructions on the characters of one main   *)
(* file, no preamble file given: the second and third statement of        *)
(* begin_parsing, up to the call of execute on the main instruction.       *)
(***************************************************************************)
\* an AdvancedIllError: the IllError, and the positions attached to it (the
\* one inside the IllError, then the ReadHead of the AdvancedIllError)
NoResult == [kind |-> "none", err |-> NoErr, positions |-> <<>>]
OkResult == [kind |-> "ok", err |-> NoErr, positions |-> <<>>]
ErrResult(e, positions) == [kind |-> "err", err |-> e, positions |-> positions]

\* Instruction::new_default and a default InstSwitchBox; from, to: history,
\* the characters the name was read from
new_default ==
    [name |-> <<>>, arguments |-> <<>>, codes |-> <<>>,
     scope |-> <<Register(n_res, 0, TRUE)>>, is_main |-> FALSE,
     is_reading_definition |-> FALSE, from |-> 0, to |-> 0]

evaluator == <<files, preamble, phase, registers, instructions, scope, stack, ret,
               returned, out, owner, seen, nexec, failed, raised>>

\* a panic of the scan (unwrap on None, index out of bounds)
ScanPanics ==
    /\ where' = "panicked"
    /\ UNCHANGED <<content, it, head, found, table, current, parsed, result, evaluator>>

\* the scan returns Err
ScanFails(e, positions) ==
    /\ where' = "end"
    /\ result' = ErrResult(e, positions)

\* create_registers, the character loop
RegisterChar ==
    /\ where = "registers" /\ it <= Len(content)
    /\ LET x == content[it]
       IN /\ head' = advance(head, x)
          /\ it' = it + 1
          /\ IF x \notin Whitespace /\ x = REGISTER_DEF
             THEN found' = TRUE /\ where' = "register"
             ELSE UNCHANGED <<found, where>>
    /\ UNCHANGED <<content, table, current, parsed, result, evaluator>>

\* create_registers, the loop over the names that follow a `+`
RegisterName ==
    /\ where = "register"
    /\ IF it <= Len(content) /\ content[it] # NEWLINE
       THEN LET data == read_until(content, it, {DEF_END})
                register_name == data.dat
                h == traverse_read(head, data)
            IN /\ it' = data.it
               /\ head' = h
               /\ IF does_register_exist(table, register_name)
                  THEN /\ ScanFails(Err("RegisterRedefinition", register_name), <<h, h>>)
                       /\ UNCHANGED table
                  ELSE /\ table' = Append(table, [identifier |-> register_name, value |-> 0,
                                                  is_variable |-> FALSE,
                                                  from |-> data.from, to |-> data.to])
                       /\ UNCHANGED <<where, result>>
       ELSE where' = "registers" /\ UNCHANGED <<it, head, table, result>>
    /\ UNCHANGED <<content, found, current, parsed, evaluator>>

\* create_registers at the end of the file; on Ok begin_parsing goes on to
\* scan_instructions(false), which starts with a new iterator and ReadHead
RegistersEnd ==
    /\ where = "registers" /\ it > Len(content)
    /\ IF ~found
       THEN /\ ScanFails(ErrFile("NoRegistersFound", 1), <<head>>)
            /\ UNCHANGED <<it, head, current>>
       ELSE /\ where' = "chars"
            /\ it' = 1
            /\ head' = new
            /\ current' = new_default
            /\ UNCHANGED result
    /\ UNCHANGED <<content, found, table, parsed, evaluator>>

\* scan_instructions, the character loop
InstructionChar ==
    /\ where = "chars" /\ it <= Len(content)
    /\ LET x == content[it]
           h == advance(head, x)
       IN /\ head' = h
          /\ it' = it + 1
          /\ IF x = COMMENT_SINGLE_LINE
             THEN where' = "comment" /\ UNCHANGED <<current, result>>
             ELSE IF x = INST_DEF
             THEN IF current.is_reading_definition
                  THEN /\ ScanFails(Err("UnexpectedCharacter", <<x>>), <<h, h>>)
                       /\ UNCHANGED current
                  ELSE /\ current' = [current EXCEPT !.is_reading_definition = TRUE]
                       /\ where' = "definition"
                       /\ UNCHANGED result
             ELSE UNCHANGED <<where, current, result>>
    /\ UNCHANGED <<content, found, table, parsed, evaluator>>

\* after a `>`: dump_until the end of the line
Comment ==
    /\ where = "comment"
    /\ LET data == read_until_spare_ws(content, it, {NEWLINE})
       IN /\ head' = traverse_read(head, data)
          /\ it' = data.it
    /\ where' = "chars"
    /\ UNCHANGED <<content, found, table, current, parsed, result, evaluator>>

\* after a `$`: is_main from the next character, then the name up to `(`
Definition ==
    /\ where = "definition"
    /\ IF it > Len(content) THEN ScanPanics
       ELSE LET data == read_until(content, it, {INST_PARAM_BEGIN})
            IN /\ current' = [current EXCEPT !.is_main = (content[it] = INST_DEF),
                                             !.name = data.dat,
                                             !.from = data.from, !.to = data.to]
               /\ head' = traverse_read(head, data)
               /\ it' = data.it
               /\ where' = "parameters"
               /\ UNCHANGED <<content, found, table, parsed, result, evaluator>>

\* the parameters up to `)`, split at the spaces
Parameters ==
    /\ where = "parameters"
    /\ LET data == read_until_spare_ws(content, it, {INST_PARAM_END})
       IN /\ current' = [current EXCEPT !.arguments = split(data.dat, 1, <<>>)]
          /\ head' = traverse_read(head, data)
          /\ it' = data.it
    /\ where' = "codes_begin"
    /\ UNCHANGED <<content, found, table, parsed, result, evaluator>>

\* a `{` is looked for before the next `}`, then everything up to it is dumped
CodesBegin ==
    /\ where = "codes_begin"
    /\ IF ~any_exists_until(content, it, {INST_CODES_BEGIN}, {INST_CODES_END})
       THEN IF it > Len(content) THEN ScanPanics
            ELSE /\ ScanFails(Err("UnexpectedCharacter", <<content[it]>>), <<head, head>>)
                 /\ UNCHANGED <<content, it, head, found, table, current, parsed, evaluator>>
       ELSE LET data == read_until_spare_ws(content, it, {INST_CODES_BEGIN})
            IN /\ head' = traverse_read(head, data)
               /\ it' = data.it
               /\ where' = "codes"
               /\ UNCHANGED <<content, found, table, current, parsed, result, evaluator>>

\* the loop over the statements of the body goes on
MoreCodes ==
    /\ it <= Len(content)
    /\ content[it] # INST_CODES_END
    /\ any_exists_until(content, it, {DEF_END}, {INST_CODES_END})

\* one statement: the text up to `;`, trimmed, through parse_code
Statement ==
    /\ where = "codes" /\ MoreCodes
    /\ LET data == read_until_spare_ws(content, it, {DEF_END})
           h == traverse_read(head, data)
           code == trim(data.dat)
           Checked(res) ==
               IF res.kind = "panic" THEN ScanPanics
               ELSE /\ head' = h
                    /\ it' = data.it
                    /\ IF res.kind = "err"
                       THEN /\ ScanFails(res.err, <<res.location, res.location>>)
                            /\ UNCHANGED current
                       ELSE /\ current' = [current EXCEPT !.codes =
                                   Append(@, [name |-> res.code.name,
                                              arguments |-> res.code.arguments,
                                              location |-> res.code.location,
                                              text |-> code,
                                              from |-> data.from, to |-> data.to])]
                            /\ UNCHANGED <<where, result>>
                    /\ UNCHANGED <<content, found, table, parsed, evaluator>>
       IN Checked(parse_code_text(h, current, parsed, table, code))

\* the body is through: the name is checked and the instruction pushed
Defined ==
    /\ where = "codes" /\ ~MoreCodes
    /\ IF does_instruction_exist(parsed, current.name)
       THEN LET moved == new_by(head, 0, -Len(current.name))
            IN /\ ScanFails(Err("InstructionRedefinition", current.name),
                            <<new_by(moved, 0, -Len(current.name)), moved>>)
               /\ UNCHANGED <<current, parsed>>
       ELSE /\ parsed' = Append(parsed, [current EXCEPT !.is_reading_definition = FALSE])
            /\ current' = new_default
            /\ where' = "chars"
            /\ UNCHANGED result
    /\ UNCHANGED <<content, it, head, found, table, evaluator>>

\* the end of the file: no instruction, one instruction, the main instruction
MarkedMain(insts) ==
    IF Len(insts) = 1 THEN <<[insts[1] EXCEPT !.is_main = TRUE]>> ELSE insts

ScanEnd ==
    /\ where = "chars" /\ it > Len(content)
    /\ IF Len(parsed) = 0
       THEN /\ ScanFails(Err("NoMainInstruction", <<>>), <<>>)
            /\ UNCHANGED <<content, it, head, found, table, current, parsed, evaluator>>
       ELSE IF \A k \in 1..Len(MarkedMain(parsed)) : ~MarkedMain(parsed)[k].is_main
       THEN ScanPanics
       ELSE /\ parsed' = MarkedMain(parsed)
            /\ where' = "end"
            /\ result' = OkResult
            /\ UNCHANGED <<content, it, head, found, table, current, evaluator>>

\* the source files of the character-level scans, each shown as its text
Sources ==
    {
      \*   +x;
      \*   $$m(){mov 1 x;}
      <<"+", "x", ";", "\n", "$", "$", "m", "(", ")", "{", "m", "o", "v", " ", "1", " ", "x",
        ";", "}", "\n">>,
      \*   +x;
      \*   $$m(){dis x;}
      <<"+", "x", ";", "\n", "$", "$", "m", "(", ")", "{", "d", "i", "s", " ", "x", ";", "}",
        "\n">>,
      \*   +x;
      \*   $$m(){mov 1 x;
      \*    dis x;}
      <<"+", "x", ";", "\n", "$", "$", "m", "(", ")", "{", "m", "o", "v", " ", "1", " ", "x",
        ";", "\n", " ", "d", "i", "s", " ", "x", ";", "}", "\n">>,
      \*   +x;
      \*   $f(){}
      \*   $f(){}
      <<"+", "x", ";", "\n", "$", "f", "(", ")", "{", "}", "\n", "$", "f", "(", ")", "{",
        "}", "\n">>,
      \*   +x;
      \*   $ff(){}
      \*   $ff(){}
      <<"+", "x", ";", "\n", "$", "f", "f", "(", ")", "{", "}", "\n", "$", "f", "f", "(",
        ")", "{", "}", "\n">>,
      \*   > +y;
      \*   +x;
      \*   $$m(){}
      <<">", " ", "+", "y", ";", "\n", "+", "x", ";", "\n", "$", "$", "m", "(", ")", "{",
        "}", "\n">>,
      \*   +x; > +y;
      \*   $$m(){}
      <<"+", "x", ";", " ", ">", " ", "+", "y", ";", "\n", "$", "$", "m", "(", ")", "{", "}",
        "\n">>,
      \*   +x;
      \*   $$m(){
      \*   > set x
      \*   mov 1 x;
      \*   }
      <<"+", "x", ";", "\n", "$", "$", "m", "(", ")", "{", "\n", ">", " ", "s", "e", "t",
        " ", "x", "\n", "m", "o", "v", " ", "1", " ", "x", ";", "\n", "}", "\n">>,
      \*   +x;
      \*   $$m(){mov 1 x; > then
      \*   dis x;}
      <<"+", "x", ";", "\n", "$", "$", "m", "(", ")", "{", "m", "o", "v", " ", "1", " ", "x",
        ";", " ", ">", " ", "t", "h", "e", "n", "\n", "d", "i", "s", " ", "x", ";", "}",
        "\n">>,
      \*   +x;
      \*   > $f(){}
      \*   $$m(){}
      <<"+", "x", ";", "\n", ">", " ", "$", "f", "(", ")", "{", "}", "\n", "$", "$", "m",
        "(", ")", "{", "}", "\n">>,
      \*   $$m(){}
      <<"$", "$", "m", "(", ")", "{", "}", "\n">>,
      \*   +x;x;
      <<"+", "x", ";", "x", ";", "\n">>,
      \*   +x;
      <<"+", "x", ";", "\n">>,
      \*   +x;y;
      \*   $f(a b){}
      \*   $$m(){do f;}
      <<"+", "x", ";", "y", ";", "\n", "$", "f", "(", "a", " ", "b", ")", "{", "}", "\n",
        "$", "$", "m", "(", ")", "{", "d", "o", " ", "f", ";", "}", "\n">>,
      \*   +x;
      \*   $f()   (no newline at the end)
      <<"+", "x", ";", "\n", "$", "f", "(", ")">>,
      \*   +x;
      \*   $f() }   (no newline at the end)
      <<"+", "x", ";", "\n", "$", "f", "(", ")", " ", "}">>,
      \*   +x;
      \*   $   (no newline at the end)
      <<"+", "x", ";", "\n", "$">>,
      \*   +x;
      \*   $$m(){pt "a b";}
      <<"+", "x", ";", "\n", "$", "$", "m", "(", ")", "{", "p", "t", " ", QUOTE, "a", " ",
        "b", QUOTE, ";", "}", "\n">>,
      \*   +x;
      \*   $$m(){foo;}
      <<"+", "x", ";", "\n", "$", "$", "m", "(", ")", "{", "f", "o", "o", ";", "}", "\n">>,
      \*   +x;
      \*   $$m(){mov 1;}
      <<"+", "x", ";", "\n", "$", "$", "m", "(", ")", "{", "m", "o", "v", " ", "1", ";", "}",
        "\n">>,
      \*   +x;
      \*   $$m(){;}
      <<"+", "x", ";", "\n", "$", "$", "m", "(", ")", "{", ";", "}", "\n">>,
      \*   +x;
      \*   $f$g(){}
      <<"+", "x", ";", "\n", "$", "f", "$", "g", "(", ")", "{", "}", "\n">>,
      \*   +x;
      \*   $f(){}
      \*   $g(){}
      <<"+", "x", ";", "\n", "$", "f", "(", ")", "{", "}", "\n", "$", "g", "(", ")", "{",
        "}", "\n">>,
      \*   +x;
      \*   $f( a ){ mov 12 x ; }
      <<"+", "x", ";", "\n", "$", "f", "(", " ", "a", " ", ")", "{", " ", "m", "o", "v", " ",
        "1", "2", " ", "x", " ", ";", " ", "}", "\n">> }

\* the evaluator is not running
Unrun ==
    /\ files = <<>>
    /\ preamble = <<>>
    /\ phase = "idle"
    /\ registers = <<>>
    /\ instructions = <<>>
    /\ scope = <<>>
    /\ stack = <<>>
    /\ ret = NoRet
    /\ returned = Pending
    /\ out = <<>>
    /\ owner = <<>>
    /\ seen = <<>>
    /\ nexec = 0
    /\ failed = [err |-> NoErr, at |-> 0]
    /\ raised = <<>>

InitScan ==
    /\ content \in Sources
    /\ it = 1
    /\ head = new
    /\ where = "registers"
    /\ found = FALSE
    /\ table = <<>>
    /\ current = new_default
    /\ parsed = <<>>
    /\ result = NoResult
    /\ Unrun

NextScan ==
    \/ RegisterChar \/ RegisterName \/ RegistersEnd
    \/ InstructionChar \/ Comment \/ Definition \/ Parameters \/ CodesBegin
    \/ Statement \/ Defined \/ ScanEnd

ScanSpec == InitScan /\ [][NextScan]_vars

(***************************************************************************)
(* The properties of the specification, C1 to C10.                         *)
(***************************************************************************)
\* the run is that of a program whose main instruction is one `for` over f,
\* f not writing the loop variable, and the main scan has started it
LoopRun ==
    /\ [preamble |-> preamble, files |-> files] \in LoopPrograms
    /\ phase \in {"exec", "done", "panic"}

LoopArgs == instructions[Len(instructions)].codes[1].arguments
LoopFrom == LoopArgs[2].n
LoopThrough == LoopArgs[3].n
LoopStep == LoopArgs[4].n

\* the opcode before the one the running call is at is `name`, and it is over
JustCompleted(name) ==
    /\ Running
    /\ ret.kind = "none"
    /\ Top.st = "start"
    /\ Top.pc > 1
    /\ Codes[Top.pc - 1].name = name

Previous == Codes[Top.pc - 1]

\* C1: an ascending loop `for "i" a b 1 body`, a <= b, calls body b-a+1 times,
\* the k-th call seeing i = a+k-1.
C1_AscendingLoop ==
    (LoopRun /\ LoopStep = 1 /\ LoopFrom <= LoopThrough) =>
        /\ \A k \in 1..Len(seen) : seen[k].there /\ seen[k].v = LoopFrom + k - 1
        /\ Len(seen) <= LoopThrough - LoopFrom + 1
        /\ phase = "done" => Len(seen) = LoopThrough - LoopFrom + 1

\* C2: a descending loop `for "i" a b 1 body`, a > b, calls body a-b+1 times,
\* the k-th call seeing i = a-k+1.
C2_DescendingLoop ==
    (LoopRun /\ LoopStep = 1 /\ LoopFrom > LoopThrough) =>
        /\ \A k \in 1..Len(seen) : seen[k].there /\ seen[k].v = LoopFrom - k + 1
        /\ Len(seen) <= LoopFrom - LoopThrough + 1
        /\ phase = "done" => Len(seen) = LoopFrom - LoopThrough + 1

\* the counter has neither reached nor passed `through` in the loop's direction
Before(val, from, through) == IF from > through THEN val > through ELSE val < through

\* C3: a `for` stops as soon as its counter has reached or passed `through` in
\* the chosen direction, whatever the step: the body is never called with a
\* counter at or beyond `through`.
C3_LoopStops ==
    LoopRun =>
        \A k \in 1..Len(stack) :
            stack[k].st = "body" => Before(stack[k].val, LoopFrom, LoopThrough)

\* C4: after a `for` is over without an error, no variable of the scope has the
\* name of its loop variable.
C4_LoopVariableRemoved ==
    JustCompleted("for") => ~l_register_exists(Previous.arguments[1].s, InUse)

\* the `if` of frame f has run one branch, the one the condition's value selects
OneBranch(f) ==
    /\ f.thenRuns + f.elseRuns = 1
    /\ f.thenRuns = 1 <=> f.unr = TRUE_F

\* the instruction an `if` with arguments a calls for the value unr
Selected(a, unr) == find_instruction(instructions, IF unr = TRUE_F THEN a[2].s ELSE a[3].s)

\* C5: an `if` whose condition returned without error runs its first branch once
\* and the second not at all when the value returned is TRUE, the second once and
\* the first not at all otherwise: before the condition returns no branch has
\* run, the `if` raises no error of its own once it has, the call in progress
\* is the selected branch, and when the `if` is over exactly one branch has run.
C5_IfRunsOneBranch ==
    phase = "exec" =>
        /\ \A k \in 1..Len(stack) :
              LET f == stack[k]
                  a == instructions[f.inst].codes[f.pc].arguments
              IN /\ f.st = "cond" =>
                        /\ f.thenRuns = 0 /\ f.elseRuns = 0
                        /\ k = Len(stack) => ret.err.kind # "NonExistentInstruction"
                 /\ f.st = "branch" =>
                        /\ OneBranch(f)
                        /\ k < Len(stack) => stack[k + 1].inst = Selected(a, f.unr)
        /\ JustCompleted("if") => OneBranch(Top)

\* an `if` is over whose condition returned FALSE: it ran the second branch
C5_ElseTaken ==
    /\ JustCompleted("if")
    /\ Top.unr = FALSE_F
    /\ Top.elseRuns = 1
    /\ Top.thenRuns = 0

\* C6 as the specification states it: a variable `mak` creates is seen by the
\* instruction call that created it only, and is never in the global table.
C6_MakLocal ==
    /\ \A k \in 1..Len(registers) : ~registers[k].is_variable
    /\ Running =>
          \A k \in 1..Len(InUse) : Pushers[k].op = "mak" => Pushers[k].inst = Top.inst

\* C6: a variable `mak` creates goes to the one scope vector that the main
\* instruction's call and every call nested in it work on, so that it is seen
\* by the caller after the return and by every instruction called later; the
\* scope vectors of the other instructions stay as they were built, and the
\* global table holds no variable.
C6_MakShared ==
    /\ \A k \in 1..Len(registers) : ~registers[k].is_variable
    /\ Running =>
          /\ \A k \in 1..Len(stack) : stack[k].sc = stack[1].inst
          /\ \A k \in 1..Len(scope) :
                k # stack[1].inst => scope[k] = <<Register(n_res, 0, TRUE)>>

\* the main instruction runs with a variable in its scope that a `mak` of
\* another instruction created
C6_CalleeMakSeen ==
    /\ Running
    /\ Len(stack) = 1
    /\ \E k \in 1..Len(InUse) : Pushers[k].op = "mak" /\ Pushers[k].inst # Top.inst

NoDuplicates(v) ==
    \A j, k \in 1..Len(v) : j # k => v[j].identifier # v[k].identifier

\* C7: no two registers of the global table, and no two of a scope, have the
\* same identifier.
C7_UniqueIdentifiers ==
    /\ NoDuplicates(registers)
    /\ \A k \in 1..Len(scope) : NoDuplicates(scope[k])

InBoth(name) == g_register_exists(name, registers) /\ l_register_exists(name, InUse)
InNeither(name) == ~g_register_exists(name, registers) /\ ~l_register_exists(name, InUse)

\* C8: an operand naming a container that is both in the scope and in the global
\* table is read from and written to the scope (mov, add, neg, dis, dsl, mak),
\* and one that is in neither makes the opcode fail with NonExistentRegister.
C8_LocalFirst ==
    [][ /\ (AtOp("mov") /\ InBoth(Arg(2).s)) => registers' = registers
        /\ (AtOp("add") /\ InBoth(Arg(2).s)) => registers' = registers
        /\ (AtOp("neg") /\ InBoth(Arg(1).s)) => registers' = registers
        /\ ((AtOp("dis") \/ AtOp("dsl")) /\ InBoth(Arg(1).s)) =>
               out' = Append(out, Printed(Code.name = "dsl", ValueOf(InUse, Arg(1).s)))
        /\ (AtOp("mak") /\ ~Arg(2).left /\ InBoth(Arg(2).s)
                /\ Len(scope'[Top.sc]) > Len(InUse)) =>
               scope'[Top.sc][Len(InUse) + 1].value = ValueOf(InUse, Arg(2).s)
        /\ ((AtOp("neg") \/ AtOp("dis") \/ AtOp("dsl")) /\ InNeither(Arg(1).s)) =>
               ret'.err.kind = "NonExistentRegister"
        /\ ((AtOp("mov") \/ AtOp("add")) /\ InNeither(Arg(2).s)) =>
               ret'.err.kind = "NonExistentRegister"
      ]_vars

\* C9: once an opcode has failed, at any depth, no further opcode is executed
\* and begin_parsing gets that error back.
C9_ErrorReturned ==
    failed.err.kind # "" =>
        /\ nexec = failed.at
        /\ phase # "panic"
        /\ phase = "done" => returned = ReturnedSome(failed.err)

\* C10: the first error a scan or a validation step raises, that of a preamble
\* file included, is what begin_parsing returns, no later phase running.
C10_FirstErrorReturned ==
    raised # <<>> => (phase = "done" /\ returned = ReturnedSome(raised[1]))

\* the instructions the preamble pass leaves in the instruction list
PreambleInstructions == scan_instructions(preamble, files, <<>>, <<>>).insts

\* C11: nothing is executed during the preamble pass, and the instruction run
\* as the main instruction is never one a preamble file defined.
C11_PreambleNeverRun ==
    /\ phase \in {"scan_pre", "create_regs"} => (nexec = 0 /\ stack = <<>> /\ out = <<>>)
    /\ Running => stack[1].inst > Len(PreambleInstructions)

\* the instruction was written with the doubled sigil: its name, read from
\* the first sigil on, starts with the second
DoubledSigil(inst) == inst.name # <<>> /\ inst.name[1] = "$"

Mains == { k \in 1..Len(instructions) : instructions[k].is_main }

\* C12: when a program of two or more instructions is run, exactly one
\* instruction is marked main, it is the one written with `$$`, and it is the
\* one executed.
C12_OneMainExecuted ==
    (Running /\ Len(instructions) >= 2) =>
        /\ Cardinality(Mains) = 1
        /\ \A k \in Mains : DoubledSigil(instructions[k])
        /\ stack[1].inst \in Mains

RECURSIVE DefinitionCount(_)
DefinitionCount(fs) ==
    IF fs = <<>> THEN 0 ELSE Len(fs[1].insts) + DefinitionCount(Tail(fs))

\* the program has main files and, in all its files, one instruction definition
OneDefinition ==
    /\ files # <<>>
    /\ DefinitionCount(preamble) + DefinitionCount(files) = 1

\* the registers are declared without error and every definition parses
WellFormed ==
    /\ ScanFiles(preamble, 1, <<>>, <<>>, FALSE).kind = "ok"
    /\ create_registers(files, <<>>).kind = "ok"
    /\ ScanFiles(files, 1, PreambleInstructions, create_registers(files, <<>>).regs,
                 FALSE).kind = "ok"

\* begin_parsing is back from an execution of the main instruction
Executed ==
    \/ returned = ReturnedNone
    \/ failed.err.kind # "" /\ returned = ReturnedSome(failed.err)

\* C13: the only instruction of a well-formed program is marked main and
\* executed, with one sigil or two: the run never stops before the execution,
\* and the instruction executed is that one, marked main.
C13_SingleInstructionIsMain ==
    (OneDefinition /\ WellFormed) =>
        /\ phase # "panic"
        /\ phase = "done" => Executed
        /\ phase = "exec" =>
              /\ Len(instructions) = 1
              /\ instructions[1].is_main
              /\ stack # <<>> => stack[1].inst = 1

\* the only instruction of the program, written with one sigil, is running
C13_PlainInstructionRuns ==
    /\ OneDefinition
    /\ Running
    /\ stack[1].inst = 1
    /\ ~DoubledSigil(instructions[1])
    /\ nexec > 0

\* the main files without a register declaration, and the first of them
Bare == { j \in 1..Len(files) : files[j].regs = <<>> }
FirstBare == CHOOSE j \in Bare : \A k \in Bare : j <= k

RECURSIVE DeclaredBefore(_)
DeclaredBefore(j) ==
    IF j <= 1 THEN <<>> ELSE DeclaredBefore(j - 1) \o files[j - 1].regs

NoRepeat(names) == \A j, k \in 1..Len(names) : j # k => names[j] # names[k]

\* C14 as the specification states it: a program with a main file without a
\* register declaration ends with NoRegistersFound naming that file, no
\* instruction having been scanned before.
C14_NoRegistersBeforeScan ==
    (Bare # {} /\ NoRepeat(DeclaredBefore(FirstBare))) =>
        /\ instructions = <<>>
        /\ phase = "done" => returned = ReturnedSome(ErrFile("NoRegistersFound", FirstBare))

\* C14: a program with a main file without a register declaration, the main
\* files before it declaring no register twice, ends with NoRegistersFound
\* naming the first such file; no instruction of a main file is scanned and
\* nothing is executed before, the instructions of the preamble files being
\* the only ones scanned.
C14_NoRegistersFound ==
    (Bare # {} /\ NoRepeat(DeclaredBefore(FirstBare))) =>
        /\ phase \notin {"scan_main", "exec"}
        /\ nexec = 0
        /\ phase \in {"create_regs", "done"} => instructions = PreambleInstructions
        /\ phase = "done" => returned = ReturnedSome(ErrFile("NoRegistersFound", FirstBare))

\* NoRegistersFound is returned for the second main file, the preamble pass
\* having scanned an instruction
C14_SecondFileBare ==
    /\ phase = "done"
    /\ returned = ReturnedSome(ErrFile("NoRegistersFound", 2))
    /\ instructions # <<>>

\* no file of the program, preamble or main, defines an instruction
NoDefinition == DefinitionCount(preamble) + DefinitionCount(files) = 0

\* every main file declares a register and no register is declared twice
RegistersDeclared == Bare = {} /\ NoRepeat(DeclaredBefore(Len(files) + 1))

\* C15: a program with main files, its registers declared, that defines no
\* instruction ends with NoMainInstruction, and nothing is executed.
C15_NoMainInstruction ==
    (files # <<>> /\ RegistersDeclared /\ NoDefinition) =>
        /\ phase \notin {"exec", "panic"}
        /\ nexec = 0 /\ stack = <<>> /\ out = <<>>
        /\ phase = "done" => returned = ReturnedSome(ErrFile("NoMainInstruction", 1))

\* begin_parsing is back with NoMainInstruction, the registers declared
C15_NoMainReturned ==
    /\ NoDefinition
    /\ phase = "done"
    /\ returned.err.kind = "NoMainInstruction"
    /\ registers # <<>>
    /\ instructions = <<>>

\* C16: with an empty list of main files begin_parsing returns an error of
\* kind NoRegistersFound or NoMainInstruction, and fails in no other way.
C16_NoFilesError ==
    files = <<>> =>
        /\ phase # "panic"
        /\ phase = "done" => returned.err.kind \in {"NoRegistersFound", "NoMainInstruction"}

\* the register names the main files declare, in order, and the positions of
\* those declared before
AllNames == DeclaredBefore(Len(files) + 1)
Repeats == { k \in 1..Len(AllNames) : \E j \in 1..(k - 1) : AllNames[j] = AllNames[k] }
FirstRepeat == CHOOSE k \in Repeats : \A m \in Repeats : k <= m

\* C17: the global table never holds two registers of the same identifier; when
\* the main files, each declaring a register, declare a name twice (in one file
\* or in two), begin_parsing ends with RegisterRedefinition for the second
\* occurrence, the table holding the declarations before it, and no
\* instruction of a main file is scanned.
C17_RedeclarationRefused ==
    /\ NoDuplicates(registers)
    /\ (Bare = {} /\ Repeats # {}) =>
          /\ phase \notin {"scan_main", "exec"}
          /\ phase = "done" =>
                /\ returned = ReturnedSome(Err("RegisterRedefinition", AllNames[FirstRepeat]))
                /\ Len(registers) = FirstRepeat - 1
                /\ \A k \in 1..Len(registers) : registers[k].identifier = AllNames[k]

\* RegisterRedefinition is returned for a name the first main file declared
\* and the second declares again
C17_SecondFileRedeclares ==
    /\ phase = "done"
    /\ returned.err.kind = "RegisterRedefinition"
    /\ Len(files) = 2
    /\ NoRepeat(files[1].regs)
    /\ Len(registers) = Len(files[1].regs)

BinaryOps == {"mod", "eq", "lt", "gt", "gte", "lte"}

\* the name is held by a global register or by a variable of the scope in use
Taken(name) == g_register_exists(name, registers) \/ l_register_exists(name, InUse)

\* the running opcode creates a variable, and the name it is to have
Creates ==
    /\ Running /\ nexec < MaxExec /\ ret.kind = "none" /\ Top.st = "start"
    /\ Top.pc <= Len(Codes)
    /\ Code.name \in BinaryOps \cup {"mak", "dor", "for"}

Target ==
    IF Code.name \in BinaryOps THEN Arg(3).s
    ELSE IF Code.name = "dor" THEN Arg(2).s
    ELSE Arg(1).s

\* the value operands of the running opcode resolve
Resolves ==
    Code.name \in BinaryOps =>
        /\ get_absolute_value(Arg(1), registers, InUse).ok
        /\ get_absolute_value(Arg(2), registers, InUse).ok

\* C18 as the specification states it: a variable-creating opcode whose target
\* name is taken fails with RegisterRedefinition, and changes nothing.
C18_AlwaysRedefinition ==
    [][ (Creates /\ Taken(Target)) =>
            /\ ret'.kind = "err" /\ ret'.err.kind = "RegisterRedefinition"
            /\ registers' = registers /\ scope' = scope
      ]_vars

\* C18: a variable-creating opcode (mak, mod, gt, lt, eq, gte, lte, dor, for)
\* whose target name is taken fails, calls no instruction, and leaves the global
\* table and the scope as they were; the error is RegisterRedefinition for that
\* name unless a value operand of mod, gt, lt, eq, gte, lte fails to resolve
\* (the error is then that of the operand).
C18_NeverOverwrites ==
    [][ (Creates /\ Taken(Target)) =>
            /\ ret'.kind = "err"
            /\ registers' = registers /\ scope' = scope /\ stack' = stack
            /\ Resolves => (ret'.err.kind = "RegisterRedefinition" /\ ret'.err.name = Target)
            /\ ~Resolves => ret'.err.kind = "NonExistentRegister"
      ]_vars

\* a `for` was refused because its loop variable is a variable of the scope
C18_ForRefused ==
    /\ Running
    /\ Top.pc <= Len(Codes)
    /\ Code.name = "for"
    /\ Top.st = "start"
    /\ ret.err.kind = "RegisterRedefinition"
    /\ ret.err.hint = "Variable Reference"
    /\ l_register_exists(Arg(1).s, InUse)

Comparisons == {"eq", "lt", "gt", "gte", "lte"}

\* a comparison whose operands resolve is about to create a variable of a fresh name
Compares == Creates /\ Code.name \in Comparisons /\ Resolves /\ ~Taken(Target)

Left == get_absolute_value(Arg(1), registers, InUse).v
Right == get_absolute_value(Arg(2), registers, InUse).v

\* C19: for values a, b and a fresh name r, `gt a b r`, `lt a b r`, `eq a b r`,
\* `gte a b r`, `lte a b r` succeed and add to the scope one variable r, whose
\* value is the TRUE sentinel exactly when a>b, a<b, a=b, a>=b, a<=b and the
\* FALSE sentinel otherwise; the sentinels differ; nothing else changes.
C19_ComparisonSentinel ==
    [][ Compares =>
            LET made == scope'[Top.sc][Len(InUse) + 1]
            IN /\ TRUE_F # FALSE_F
               /\ ret'.kind = "none"
               /\ registers' = registers
               /\ Len(scope'[Top.sc]) = Len(InUse) + 1
               /\ SubSeq(scope'[Top.sc], 1, Len(InUse)) = InUse
               /\ \A k \in 1..Len(scope) : k # Top.sc => scope'[k] = scope[k]
               /\ made.identifier = Target
               /\ made.is_variable
               /\ made.value \in {TRUE_F, FALSE_F}
               /\ Code.name = "gt" => (made.value = TRUE_F <=> Left > Right)
               /\ Code.name = "lt" => (made.value = TRUE_F <=> Left < Right)
               /\ Code.name = "eq" => (made.value = TRUE_F <=> Left = Right)
               /\ Code.name = "gte" => (made.value = TRUE_F <=> Left >= Right)
               /\ Code.name = "lte" => (made.value = TRUE_F <=> Left <= Right)
      ]_vars

\* `gte a a r` has run and r holds the TRUE sentinel
C19_GteOfEqual ==
    /\ JustCompleted("gte")
    /\ get_absolute_value(Previous.arguments[1], registers, InUse).v
         = get_absolute_value(Previous.arguments[2], registers, InUse).v
    /\ l_register_exists(Previous.arguments[3].s, InUse)
    /\ ValueOf(InUse, Previous.arguments[3].s) = TRUE_F
    /\ Pushers[position(InUse, Previous.arguments[3].s)].op = "gte"

\* `mov v x` is about to run, v resolves and x is a global register
MovesToGlobal ==
    /\ Running /\ nexec < MaxExec /\ ret.kind = "none" /\ Top.st = "start"
    /\ Top.pc <= Len(Codes)
    /\ Code.name = "mov"
    /\ get_absolute_value(Arg(1), registers, InUse).ok
    /\ g_register_exists(Arg(2).s, registers)

\* `mov v x` has just run for a global register x, and `dis x` or `dsl x` is next
ShowsMoved ==
    /\ JustCompleted("mov")
    /\ nexec < MaxExec
    /\ Top.pc <= Len(Codes)
    /\ Code.name \in {"dis", "dsl"}
    /\ g_register_exists(Previous.arguments[2].s, registers)
    /\ Arg(1).s = Previous.arguments[2].s

Made(code) ==
    IF code.name \in BinaryOps THEN code.arguments[3].s
    ELSE IF code.name = "dor" THEN code.arguments[2].s
    ELSE code.arguments[1].s

CreatedNames ==
    UNION { { Made(instructions[k].codes[p]) :
                p \in { q \in 1..Len(instructions[k].codes) :
                          instructions[k].codes[q].name \in BinaryOps \cup {"mak", "dor", "for"} } } :
            k \in 1..Len(instructions) }

DeclaredNames ==
    { AllNames[k] : k \in 1..Len(AllNames) }
    \cup UNION { { preamble[k].regs[j] : j \in 1..Len(preamble[k].regs) } : k \in 1..Len(preamble) }
    \cup {n_res} \cup CreatedNames

\* the running opcode reads a container operand (ContainerReference, or a
\* ProbableLiteral that is a name) held by no register and no variable, and no
\* other check of the opcode comes before the lookup
ReadsUndeclared ==
    /\ Running /\ nexec < MaxExec /\ ret.kind = "none" /\ Top.st = "start"
    /\ Top.pc <= Len(Codes)
    /\ \E k \in 1..Len(Code.arguments) :
          /\ Arg(k).t \in {"ContainerReference", "ProbableLiteral"}
          /\ ~Arg(k).left
          /\ ~Taken(Arg(k).s)
    /\ Code.name = "mak" => (~Taken(Arg(1).s) /\ to_lowercase(Arg(1).s) # n_res)

\* C21: a container name declared nowhere is refused with NonExistentRegister:
\* by the scan when it is the operand of `del` (a VariableReference), so that no
\* validated opcode holds such an operand; by the opcode when it is a
\* ContainerReference or a ProbableLiteral.
C21_UndeclaredReference ==
    [][ /\ \A k \in 1..Len(instructions') : \A p \in 1..Len(instructions'[k].codes) :
              instructions'[k].codes[p].name = "del" =>
                  instructions'[k].codes[p].arguments[1].s \in DeclaredNames'
        /\ ReadsUndeclared => (ret'.kind = "err" /\ ret'.err.kind = "NonExistentRegister")
      ]_vars

\* `dor f v` is about to run
AtDor ==
    /\ Running /\ nexec < MaxExec /\ ret.kind = "none" /\ Top.st = "start"
    /\ Top.pc <= Len(Codes)
    /\ Code.name = "dor"

\* the instruction `dor f v` called has returned Ok(res) to the waiting `dor`
DorReturns == Running /\ ret.kind = "ok" /\ Top.st = "dor"

\* C22: `dor f v` with v not taken calls f once and, f having returned, adds to
\* the scope a new variable v (no variable or register v exists yet) whose value
\* is the `res` value f returned, and goes on to the next statement; with v taken
\* it fails with RegisterRedefinition and calls nothing.
C22_DorBindsResult ==
    [][ /\ (AtDor /\ Taken(Arg(2).s)) =>
              /\ ret'.kind = "err" /\ ret'.err.kind = "RegisterRedefinition"
              /\ stack' = stack /\ scope' = scope
        /\ (AtDor /\ ~Taken(Arg(2).s)) =>
              /\ Len(stack') = Len(stack) + 1
              /\ instructions[stack'[Len(stack')].inst].name = Arg(1).s
              /\ stack'[Len(stack')].pc = 1
              /\ scope' = scope
        /\ DorReturns =>
              /\ ~Taken(Arg(2).s)
              /\ scope'[Top.sc] = Append(InUse, Register(Arg(2).s, ret.val, TRUE))
              /\ ValueOf(scope'[Top.sc], Arg(2).s) = ret.val
              /\ stack' = SetTop(Advanced)
      ]_vars

\* `del n` is about to run
AtDel ==
    /\ Running /\ nexec < MaxExec /\ ret.kind = "none" /\ Top.st = "start"
    /\ Top.pc <= Len(Codes)
    /\ Code.name = "del"

\* the places of the scope in use that hold a variable called name
Places(name) == { k \in 1..Len(InUse) : InUse[k].identifier = name }

\* C23: `del n` removes from the scope the variable n (the first of that name)
\* and nothing else: the other variables keep their order and values, the
\* global table and the other scopes stay as they were, and the next statement
\* follows; when the scope holds no variable n, also when n is a global
\* register, it fails with NonExistentRegister for n and changes nothing.
C23_DelRemovesVariable ==
    [][ /\ (AtDel /\ Places(Arg(1).s) # {}) =>
              LET at == CHOOSE k \in Places(Arg(1).s) : \A j \in Places(Arg(1).s) : k <= j
              IN /\ ret'.kind = "none"
                 /\ Len(scope'[Top.sc]) = Len(InUse) - 1
                 /\ \A k \in 1..(Len(InUse) - 1) :
                       scope'[Top.sc][k] = IF k < at THEN InUse[k] ELSE InUse[k + 1]
                 /\ Cardinality(Places(Arg(1).s)) = 1 => ~l_register_exists(Arg(1).s, scope'[Top.sc])
                 /\ \A k \in 1..Len(scope) : k # Top.sc => scope'[k] = scope[k]
                 /\ registers' = registers
                 /\ stack' = SetTop(Advanced)
        /\ (AtDel /\ Places(Arg(1).s) = {}) =>
              /\ ret'.kind = "err"
              /\ ret'.err.kind = "NonExistentRegister"
              /\ ret'.err.name = Arg(1).s
              /\ scope' = scope
              /\ registers' = registers
              /\ stack' = stack
      ]_vars

\* `mak "y" ..` then `del y` have run: y is gone, the `res` before it is kept
C23_Deleted ==
    /\ JustCompleted("del")
    /\ Top.pc > 2
    /\ Codes[Top.pc - 2].name = "mak"
    /\ Codes[Top.pc - 2].arguments[1].s = Previous.arguments[1].s
    /\ ~l_register_exists(Previous.arguments[1].s, InUse)
    /\ l_register_exists(n_res, InUse)

\* the identifiers of the global table, in its order
TableNames == [k \in 1..Len(registers) |-> registers[k].identifier]

\* C24 as the specification states it: whenever instructions are scanned, those
\* of the preamble files included, the global table holds every register the
\* main files declare.
C24_TableBeforeAnyScan ==
    [][ ((phase = "scan_pre" /\ preamble # <<>>) \/ phase = "scan_main") =>
            TableNames = AllNames
      ]_vars

\* C24: the global table is built by one step, which follows the scan of the
\* preamble files and comes before the scan of the main files: the preamble
\* scan validates against an empty table, the scan of the main files against
\* the table of every register the main files declare, and no other step adds
\* or removes a register.
C24_TableBeforeMainScan ==
    [][ /\ phase = "scan_pre" => (registers = <<>> /\ phase' \in {"create_regs", "panic"})
        /\ phase' = "create_regs" => phase = "scan_pre"
        /\ phase = "create_regs" => phase' \in {"scan_main", "done"}
        /\ phase = "scan_main" => (TableNames = AllNames /\ (files # <<>> => AllNames # <<>>))
        /\ phase # "create_regs" =>
              [k \in 1..Len(registers') |-> registers'[k].identifier] = TableNames
      ]_vars

\* the main files of a program with preamble instructions are about to be
\* scanned: the table holds the registers of two files
C24_TableBuilt ==
    /\ phase = "scan_main"
    /\ preamble # <<>>
    /\ instructions # <<>>
    /\ Len(files) > 1
    /\ Len(registers) > 1

(***************************************************************************)
(* The properties of the character-level scans, under ScanSpec.            *)
(***************************************************************************)
\* the k-th character of the file is part of a comment: a `>` (none of the
\* sources has one inside a literal operand) comes before it on its line
InComment(k) ==
    \E j \in 1..k :
        /\ content[j] = COMMENT_SINGLE_LINE
        /\ \A m \in j..k : content[m] # NEWLINE

Clean(from, to) == \A k \in from..to : ~InComment(k)

\* the instructions the scan holds: those pushed and the one being read
Held == parsed \o (IF where \in {"parameters", "codes_begin", "codes"} THEN <<current>> ELSE <<>>)

\* C25: the text from a `>` to the end of its line is discarded: no register
\* name, no instruction name and no statement the scans have read holds a
\* character of a comment.
C25_CommentsDiscarded ==
    /\ \A k \in 1..Len(table) : Clean(table[k].from, table[k].to)
    /\ \A k \in 1..Len(Held) :
          /\ Clean(Held[k].from, Held[k].to)
          /\ \A p \in 1..Len(Held[k].codes) :
                Clean(Held[k].codes[p].from, Held[k].codes[p].to)

\* the position the per-character rule gives after the first n characters of
\* the file: a newline adds a line and sets the column to 0, any other
\* character adds a column
RECURSIVE Walked(_)
Walked(n) ==
    IF n = 0 THEN ReadHead(1, 1)
    ELSE LET Stepped(h) ==
                 IF content[n] = NEWLINE THEN ReadHead(h.line + 1, 0)
                 ELSE ReadHead(h.line, h.column + 1)
         IN Stepped(Walked(n - 1))

Scanning == where \notin {"idle", "end", "panicked"}

\* C26: at every point of a scan the ReadHead is where the per-character rule
\* puts it after the characters the iterator has consumed, the delimiters that
\* the bulk reads consume included.
C26_PositionTracksCharacters ==
    Scanning => head = Walked(it - 1)

\* the line and column (both from 1) of the k-th character of the file
LineOf(k) == 1 + Cardinality({ j \in 1..(k - 1) : content[j] = NEWLINE })
ColumnOf(k) == Cardinality({ j \in 1..k : \A m \in j..(k - 1) : content[m] # NEWLINE })

\* the first character of the statement read from the characters from..to
RECURSIVE FirstOf(_)
FirstOf(from) == IF content[from] \in Whitespace THEN FirstOf(from + 1) ELSE from

\* C27: the position stored in a validated opcode is the line and column of
\* the first character of its statement.
C27_OpcodeAtStatementStart ==
    \A k \in 1..Len(Held) : \A p \in 1..Len(Held[k].codes) :
        LET code == Held[k].codes[p]
        IN code.location = ReadHead(LineOf(FirstOf(code.from)), ColumnOf(FirstOf(code.from)))

\* C28: every position attached to an error the scans return has a line and a
\* column of at least 1.
C28_PositionsFromOne ==
    result.kind = "err" =>
        \A k \in 1..Len(result.positions) :
            result.positions[k].line >= 1 /\ result.positions[k].column >= 1

(***************************************************************************)
(* The properties of the instruction references and names, under Spec.    *)
(***************************************************************************)
\* the definitions of the preamble files and of the main files
DefinitionsOf(fs) ==
    UNION { { fs[j].insts[k] : k \in 1..Len(fs[j].insts) } : j \in 1..Len(fs) }
Definitions == DefinitionsOf(preamble) \cup DefinitionsOf(files)

\* the operands of a statement at which its opcode expects an instruction
References(stmt) ==
    IF stmt.op \notin DOMAIN default_opcodes
       \/ Len(stmt.args) # Len(default_opcodes[stmt.op])
    THEN {}
    ELSE { stmt.args[k].s : k \in { q \in 1..Len(stmt.args) :
                                    default_opcodes[stmt.op][q] = "InstructionReference" } }

\* the names in References(stmt) that no definition of the program has
Dangling(stmt) == References(stmt) \ { d.name : d \in Definitions }

\* the statements of the program with a reference to no instruction
DanglingStatements ==
    UNION { { [of |-> d, stmt |-> d.stmts[k]] :
              k \in { q \in 1..Len(d.stmts) : Dangling(d.stmts[q]) # {} } } :
            d \in Definitions }

\* C29: a statement with an InstructionReference operand that names no
\* instruction of the program is refused by parse_code with
\* NonExistentInstruction whatever was scanned before it; every reference of
\* a stored opcode names an instruction stored before its own, and no opcode
\* fails with NonExistentInstruction while the program runs.
C29_DanglingReferenceRefused ==
    /\ \A s \in DanglingStatements :
          LET r == parse_code(Instruction(s.of.name, <<>>, s.of.is_main),
                              instructions, registers, s.stmt)
          IN /\ r.kind = "err"
             /\ r.err.kind = "NonExistentInstruction"
             /\ r.err.name \in Dangling(s.stmt)
    /\ \A k \in 1..Len(instructions) : \A p \in 1..Len(instructions[k].codes) :
          \A a \in 1..Len(instructions[k].codes[p].arguments) :
             LET arg == instructions[k].codes[p].arguments[a]
             IN arg.t = "InstructionReference" =>
                   \E j \in 1..(k - 1) : instructions[j].name = arg.s
    /\ failed.err.kind # "NonExistentInstruction"

\* the scan of the main files refused a statement that refers to no instruction
C29_Refused ==
    /\ phase = "done"
    /\ \E s \in DanglingStatements : \E n \in Dangling(s.stmt) :
          /\ s.of \in DefinitionsOf(files)
          /\ returned = ReturnedSome(Err("NonExistentInstruction", n))

\* the places of an instruction name in Interpreter.instructions
InstructionPlaces(name) == { k \in 1..Len(instructions) : instructions[k].name = name }

\* C30: a definition whose name an instruction already scanned has, in
\* whatever file, makes the scan fail with InstructionRedefinition and adds
\* nothing; no two instructions have the same name.
C30_NamesUnique ==
    /\ \A j, k \in 1..Len(instructions) :
          instructions[j].name = instructions[k].name => j = k
    /\ \A d \in Definitions :
          LET cur_inst == Instruction(d.name, <<>>, d.is_main)
              body == ParseStmts(d.stmts, 1, <<>>, cur_inst, instructions, registers)
              r == ScanDefs(<<d>>, 1, instructions, registers, FALSE)
          IN InstructionPlaces(d.name) # {} /\ body.kind = "ok" =>
                /\ r.kind = "err"
                /\ r.err = Err("InstructionRedefinition", d.name)
                /\ r.insts = instructions
    /\ \A k \in 1..Len(raised) :
          raised[k].kind = "InstructionRedefinition" =>
             Cardinality(InstructionPlaces(raised[k].name)) = 1

\* the scan of the main files met a name a preamble file had defined, and
\* refused it
C30_Redefined ==
    /\ phase = "done"
    /\ returned.st = "some"
    /\ returned.err.kind = "InstructionRedefinition"
    /\ \E d \in DefinitionsOf(preamble) : d.name = returned.err.name
    /\ \E d \in DefinitionsOf(files) : d.name = returned.err.name
    /\ Cardinality(InstructionPlaces(returned.err.name)) = 1

(***************************************************************************)
(* The properties of the operands and of the scopes, under Spec.          *)
(***************************************************************************)
\* the tokens the statements of the program have where a string literal is
\* expected, each with the instruction that is being defined
LiteralTokens ==
    UNION { UNION { { [of |-> d, tok |-> d.stmts[k].args[q]] :
                      q \in { a \in 1..Len(d.stmts[k].args) :
                              default_opcodes[d.stmts[k].op][a] = "StringLiteral" } } :
                    k \in { b \in 1..Len(d.stmts) :
                            /\ d.stmts[b].op \in DOMAIN default_opcodes
                            /\ Len(d.stmts[b].args) = Len(default_opcodes[d.stmts[b].op]) } } :
            d \in Definitions }

\* the token is the name of a global register or of a variable of the scope
NamesContainer(tok, inst) ==
    /\ ~tok.num
    /\ \/ \E i \in 1..Len(registers) : registers[i].identifier = tok.s
       \/ \E i \in 1..Len(inst.scope) : inst.scope[i].identifier = tok.s

HasDigit(tok) == tok.num \/ \E i \in 1..Len(tok.s) : tok.s[i] \in Digits

\* the text between the quotes of a quoted token, the text of a bare one
Unquoted(x) ==
    IF Len(x) >= 2 /\ x[1] = QUOTE /\ x[Len(x)] = QUOTE THEN SubSeq(x, 2, Len(x) - 1) ELSE x

\* C31: where a string literal is expected, a token that names a global
\* register or a local variable is refused with
\* UnescapedStringLiteralIsContainer; otherwise a token with a digit is refused
\* with OpCodeInvalidArgument; otherwise it is accepted without its quotes.
C31_StringLiteralOrder ==
    \A t \in LiteralTokens :
        LET inst == Instruction(t.of.name, <<>>, t.of.is_main)
            r == ParseArg("StringLiteral", t.tok, inst, instructions, registers)
        IN IF NamesContainer(t.tok, inst)
           THEN r.kind = "err" /\ r.err = Err("UnescapedStringLiteralIsContainer", t.tok.s)
           ELSE IF HasDigit(t.tok)
           THEN r.kind = "err" /\ r.err = Err("OpCodeInvalidArgument", t.tok.s)
           ELSE r.kind = "ok" /\ r.arg = StringLiteral(Unquoted(t.tok.s))

\* the main scan refused a string literal that is the name of a register and
\* has a digit
C31_ContainerBeforeDigit ==
    /\ phase = "done"
    /\ \E t \in LiteralTokens :
          /\ NamesContainer(t.tok, Instruction(t.of.name, <<>>, t.of.is_main))
          /\ HasDigit(t.tok)
          /\ returned = ReturnedSome(Err("UnescapedStringLiteralIsContainer", t.tok.s))

(***************************************************************************)
(* The properties of the definitions and of the reads, under ScanSpec.    *)
(***************************************************************************)
\* the name of the instruction was read over a `$` that is not the one which
\* marks the main instruction
SigilInName(inst) == \E p \in (inst.from + 1)..inst.to : content[p] = INST_DEF

\* C32: a second `$` met while the name of an instruction is read makes the
\* scan fail with UnexpectedCharacter: the scan never holds an instruction
\* whose name was read over such a `$`, and an ended scan of a file with one
\* has returned UnexpectedCharacter.
C32_SecondSigilRefused ==
    /\ \A k \in 1..Len(Held) : ~SigilInName(Held[k])
    /\ where = "end" /\ (\E k \in 1..Len(parsed) : SigilInName(parsed[k]))
          => result.kind = "err" /\ result.err.kind = "UnexpectedCharacter"

\* from the next character on there is no `{` before the next `}`
NoBodyAhead ==
    ~\E k \in it..Len(content) :
        /\ content[k] = INST_CODES_BEGIN
        /\ \A j \in it..(k - 1) : content[j] # INST_CODES_END

\* C33: a parameter list that no `{` follows before the next `}`, the end of
\* the file right after the list included, makes the scan fail with
\* UnexpectedCharacter.
C33_MissingBodyRefused ==
    [][where = "codes_begin" /\ NoBodyAhead
          => /\ where' = "end"
             /\ result'.kind = "err"
             /\ result'.err.kind = "UnexpectedCharacter"]_vars

\* the instructions whose parameter list the scan has read
WithParameters ==
    parsed \o (IF where \in {"codes_begin", "codes"} THEN <<current>> ELSE <<>>)

\* the text between the `(` after the name of the instruction and the next `)`
ParameterText(inst) ==
    SubSeq(content, inst.to + 2, StopFrom(content, inst.to + 2, {INST_PARAM_END}) - 1)

\* the parameters joined with single spaces
RECURSIVE Joined(_)
Joined(params) ==
    IF params = <<>> THEN <<>>
    ELSE IF Len(params) = 1 THEN params[1]
    ELSE params[1] \o <<" ">> \o Joined(Tail(params))

\* C34: the parameters of an instruction, joined with single spaces, give the
\* text of its parameter list, and parsing that text again gives the same
\* parameters in the same order; the empty list `()` has zero parameters.
C34_ParametersRoundTrip ==
    \A k \in 1..Len(WithParameters) :
        LET inst == WithParameters[k]
        IN /\ Joined(inst.arguments) = ParameterText(inst)
           /\ split(Joined(inst.arguments), 1, <<>>) = inst.arguments
           /\ ParameterText(inst) = <<>> => Len(inst.arguments) = 0

(***************************************************************************)
(* The properties of the scopes and of the calls, under Spec.             *)
(***************************************************************************)
\* C35: while the program runs, the scope in use holds a variable named
\* `res`: no opcode that passed validation, `del` included, removes it.
C35_ResAlwaysInScope ==
    Running => \E i \in 1..Len(InUse) : InUse[i].identifier = n_res

\* C36: while the program runs, no identifier is held both by a global
\* register and by a variable of the scope in use.
C36_NoShadowing ==
    Running =>
        \A i \in 1..Len(registers) : \A j \in 1..Len(InUse) :
            registers[i].identifier # InUse[j].identifier

\* the names of the instructions a statement refers to that are not, or not
\* yet, among the instructions scanned
NotYetScanned(stmt) ==
    References(stmt) \ { instructions[k].name : k \in 1..Len(instructions) }

\* C37: a reference to an instruction is accepted only when that instruction
\* has been scanned: a statement that refers to its own instruction or to a
\* later one is refused with NonExistentInstruction.  So every reference of a
\* stored opcode names an instruction stored before its own, every call on the
\* stack is to an instruction stored before its caller, the stack is never
\* deeper than the number of instructions, and no opcode fails with
\* NonExistentInstruction.
C37_CallsGoBackwards ==
    /\ \A d \in Definitions : \A q \in 1..Len(d.stmts) :
          NotYetScanned(d.stmts[q]) # {} =>
             LET r == parse_code(Instruction(d.name, <<>>, d.is_main), instructions,
                                 registers, d.stmts[q])
             IN /\ r.kind # "ok"
                /\ r.kind = "err" => /\ r.err.kind = "NonExistentInstruction"
                                     /\ r.err.name \in NotYetScanned(d.stmts[q])
    /\ \A k \in 1..Len(instructions) : \A p \in 1..Len(instructions[k].codes) :
          \A a \in 1..Len(instructions[k].codes[p].arguments) :
             LET arg == instructions[k].codes[p].arguments[a]
             IN arg.t = "InstructionReference" =>
                   /\ find_instruction(instructions, arg.s) >= 1
                   /\ find_instruction(instructions, arg.s) < k
    /\ Running =>
          /\ \A j \in 1..(Len(stack) - 1) : stack[j + 1].inst < stack[j].inst
          /\ Len(stack) <= Len(instructions)
    /\ failed.err.kind # "NonExistentInstruction"
    /\ ret.err.kind # "NonExistentInstruction"

\* a call of a call of the main instruction is running: the stack is as deep
\* as the instructions are many
C37_Nested ==
    /\ Running
    /\ Len(stack) = Len(instructions)
    /\ Len(stack) >= 3

\* the identifiers of the global table, in its order
Identifiers(regs) == [k \in 1..Len(regs) |-> regs[k].identifier]

\* C38: the evaluation never adds a register to the global table and never
\* removes one: the identifiers of the table stay as create_registers left
\* them.  Only values change, that of one register at a time, by the `mov`,
\* `add` or `neg` whose operand names it.
C38_GlobalNamesKept ==
    [][ phase = "exec" =>
          /\ Identifiers(registers') = Identifiers(registers)
          /\ \A k \in 1..Len(registers) :
                registers'[k].is_variable = registers[k].is_variable
          /\ registers' # registers =>
                /\ Running /\ Top.pc <= Len(Codes)
                /\ Code.name \in {"mov", "add", "neg"}
                /\ \A k \in 1..Len(registers) :
                      registers'[k] # registers[k] =>
                         registers[k].identifier = Code.arguments[Len(Code.arguments)].s
      ]_vars

\* the run has changed the value of a global register and created a variable
C38_GlobalWritten ==
    /\ Running
    /\ \E k \in 1..Len(registers) : registers[k].value # 0
    /\ Len(InUse) > 1

\* the opcodes that call no instruction and may return an error
NonCallOps ==
    {"mak", "mov", "add", "neg", "dis", "dsl", "del", "mod", "gt", "lt", "eq", "gte", "lte"}

\* C39: an opcode that calls no instruction and returns an error leaves the
\* global table and every scope as they were when it started.
C39_FailureChangesNothing ==
    [][ /\ Running /\ ret.kind = "none" /\ Top.st = "start"
        /\ Top.pc <= Len(Codes)
        /\ Code.name \in NonCallOps
        /\ ret'.kind = "err"
        => /\ registers' = registers
           /\ scope' = scope
           /\ stack' = stack
      ]_vars

\* an opcode that calls no instruction has returned an error after an opcode
\* of the same instruction had changed the scope or the global table
C39_FailedAfterChange ==
    /\ Running /\ ret.kind = "err" /\ Top.st = "start"
    /\ Top.pc <= Len(Codes)
    /\ Code.name \in NonCallOps
    /\ failed.err = ret.err
    /\ \/ Len(InUse) > 1
       \/ \E k \in 1..Len(registers) : registers[k].value # 0

\* the stop characters of the read that a step of the scan starts with
StopOf ==
    ("register" :> {DEF_END}) @@ ("comment" :> {NEWLINE})
    @@ ("definition" :> {INST_PARAM_BEGIN}) @@ ("parameters" :> {INST_PARAM_END})
    @@ ("codes_begin" :> {INST_CODES_BEGIN}) @@ ("codes" :> {DEF_END})

\* the place of the first stop character from the next character on, 0 for none
FirstStop ==
    IF \E p \in it..Len(content) : content[p] \in StopOf[where]
    THEN CHOOSE p \in it..Len(content) :
            /\ content[p] \in StopOf[where]
            /\ \A j \in it..(p - 1) : content[j] \notin StopOf[where]
    ELSE 0

\* the step reads up to a stop character that the rest of the file has
ReadsToStop == where \in DOMAIN StopOf /\ it' # it /\ FirstStop # 0

\* C40: read_until and read_until_spare_ws consume the characters up to the
\* first stop character and not that character: it is the next character of
\* the iterator when they return.
C40_StopNotConsumed ==
    [][ReadsToStop => it' = FirstStop]_vars

\* C40, as the code has it: the reads consume the characters up to the first
\* stop character and that character too: the next character of the iterator
\* is the one after it.
C40_StopConsumed ==
    [][ReadsToStop => it' = FirstStop + 1 /\ content[it' - 1] \in StopOf[where]]_vars

\* the name of an instruction has been read: the `(` is behind the iterator
C40_NameRead ==
    /\ where = "parameters"
    /\ it > 1
    /\ content[it - 1] = INST_PARAM_BEGIN
    /\ current.name # <<>>

====
